---------------------------- MODULE Spec2Model ----------------------------
(***************************************************************************)
(* Model of prism/pdf_loader.py: the segmentation pipeline of              *)
(* extract_text_from_attachment (line normalisation, the boundary          *)
(* searches of find_index, extract_sections, extract_metadata and the      *)
(* returned section map).                                                  *)
(*                                                                         *)
(* A Python str is a sequence of characters; a character is a one-letter   *)
(* TLA+ string (the two dashes have names).  Regular expressions are       *)
(* syntax trees, matched by Ends, so that the pattern tables of the source *)
(* appear here as data.  Indices are 0-based as in the source; None is     *)
(* the absent index.                                                       *)
(***************************************************************************)
EXTENDS Integers, Sequences, FiniteSets, TLC

None == -1

\* ------------------------------------------------------------------------
\* Characters and str methods
\* ------------------------------------------------------------------------
EN_DASH == "u2013"
EM_DASH == "u2014"
NL == "\n"

UpperSeq ==
  <<"A","B","C","D","E","F","G","H","I","J","K","L","M",
    "N","O","P","Q","R","S","T","U","V","W","X","Y","Z">>
LowerSeq ==
  <<"a","b","c","d","e","f","g","h","i","j","k","l","m",
    "n","o","p","q","r","s","t","u","v","w","x","y","z">>
Upper == {UpperSeq[k] : k \in DOMAIN UpperSeq}
Lower == {LowerSeq[k] : k \in DOMAIN LowerSeq}
Digit == {"0","1","2","3","4","5","6","7","8","9"}
\* \s of the re module, and the characters str.strip() removes
WS == {" ", "\t", "\n", "\r", "\f"}
\* \w of the re module
WordCh == Upper \cup Lower \cup Digit \cup {"_"}

Min(S) == CHOOSE x \in S : \A y \in S : x <= y
Max(S) == CHOOSE x \in S : \A y \in S : x >= y

LowerCh(c) ==
  IF c \in Upper THEN LowerSeq[CHOOSE k \in DOMAIN UpperSeq : UpperSeq[k] = c]
  ELSE c

\* str.lower()
StrLower(s) == [k \in 1..Len(s) |-> LowerCh(s[k])]

\* str.upper()
UpperCh(c) ==
  IF c \in Lower THEN UpperSeq[CHOOSE k \in DOMAIN LowerSeq : LowerSeq[k] = c]
  ELSE c
StrUpper(s) == [k \in 1..Len(s) |-> UpperCh(s[k])]

\* str.strip()
StrStrip(s) ==
  LET kept == {k \in 1..Len(s) : s[k] \notin WS}
  IN IF kept = {} THEN <<>> ELSE SubSeq(s, Min(kept), Max(kept))

\* sep.join(parts)
RECURSIVE Join(_, _)
Join(sep, parts) ==
  IF Len(parts) = 0 THEN <<>>
  ELSE IF Len(parts) = 1 THEN parts[1]
  ELSE LET h == Len(parts) \div 2
       IN Join(sep, SubSeq(parts, 1, h)) \o sep
            \o Join(sep, SubSeq(parts, h + 1, Len(parts)))

\* str.splitlines(): a line ends at each line break; a final line break
\* opens no further line
Splitlines(text) ==
  LET breaks == {k \in 1..Len(text) : text[k] = NL}
      nth(j) == IF j = 0 THEN 0
                ELSE IF j > Cardinality(breaks) THEN Len(text) + 1
                ELSE CHOOSE p \in breaks : Cardinality({q \in breaks : q < p}) = j - 1
      count == Cardinality(breaks)
                 + (IF Len(text) > 0 /\ text[Len(text)] # NL THEN 1 ELSE 0)
  IN [j \in 1..count |-> SubSeq(text, nth(j - 1) + 1, nth(j) - 1)]

\* needle in haystack
Contains(haystack, needle) ==
  \E k \in 0..(Len(haystack) - Len(needle)) :
    SubSeq(haystack, k + 1, k + Len(needle)) = needle

\* seq[lo:hi] of a Python sequence with 0 <= lo, 0 <= hi: the indices it
\* selects, and the slice itself
SliceRange(n, lo, hi) == {k \in 0..(n - 1) : lo <= k /\ k < hi}

Slice(seq, lo, hi) ==
  IF lo >= Len(seq) \/ lo >= hi THEN <<>>
  ELSE SubSeq(seq, lo + 1, IF hi < Len(seq) THEN hi ELSE Len(seq))

\* ------------------------------------------------------------------------
\* Regular expressions (the constructs the patterns of the source use)
\* ------------------------------------------------------------------------
Ch(S) == <<"ch", S>>                 \* one character of a class
Dot == <<"dot">>                     \* .
Lit(w) == <<"lit", w>>               \* a literal word
LitI(w) == <<"liti", w>>             \* a literal word under re.IGNORECASE
Bol == <<"bol">>                     \* ^
Eol == <<"eol">>                     \* $
WordB == <<"wb">>                    \* \b
Cat(rs) == <<"cat", rs>>             \* concatenation
Alt(rs) == <<"alt", rs>>             \* a|b
Rep(r, lo, hi) == <<"rep", r, lo, hi>>   \* r{lo,hi}
RepInf(r, lo) == <<"repinf", r, lo>>     \* r{lo,}
Star(r) == RepInf(r, 0)
Plus(r) == RepInf(r, 1)
Opt(r) == Rep(r, 0, 1)

IsWordAt(s, k) == k >= 1 /\ k <= Len(s) /\ s[k] \in WordCh

\* Ends(r, s, i): the offsets at which a match of r that starts at offset i
\* of s can end
RECURSIVE Ends(_, _, _), EndsCat(_, _, _), EndsRep(_, _, _, _, _, _)
Ends(r, s, i) ==
  CASE r[1] = "ch" -> IF i < Len(s) /\ s[i + 1] \in r[2] THEN {i + 1} ELSE {}
    [] r[1] = "dot" -> IF i < Len(s) /\ s[i + 1] # NL THEN {i + 1} ELSE {}
    [] r[1] = "lit" ->
         IF i + Len(r[2]) <= Len(s) /\ SubSeq(s, i + 1, i + Len(r[2])) = r[2]
         THEN {i + Len(r[2])} ELSE {}
    [] r[1] = "liti" ->
         IF i + Len(r[2]) <= Len(s)
            /\ StrLower(SubSeq(s, i + 1, i + Len(r[2]))) = r[2]
         THEN {i + Len(r[2])} ELSE {}
    [] r[1] = "bol" -> IF i = 0 THEN {i} ELSE {}
    [] r[1] = "eol" ->
         IF i = Len(s) \/ (i = Len(s) - 1 /\ s[Len(s)] = NL) THEN {i} ELSE {}
    [] r[1] = "wb" -> IF IsWordAt(s, i) # IsWordAt(s, i + 1) THEN {i} ELSE {}
    [] r[1] = "cat" -> EndsCat(r[2], s, {i})
    [] r[1] = "alt" -> UNION {Ends(r[2][k], s, i) : k \in DOMAIN r[2]}
    [] r[1] = "rep" -> EndsRep(r[2], s, {i}, 0, r[3], r[4])
    [] r[1] = "repinf" -> EndsRep(r[2], s, {i}, 0, r[3], Len(s) + 1)

EndsCat(rs, s, P) ==
  IF Len(rs) = 0 \/ P = {} THEN P
  ELSE EndsCat(Tail(rs), s, UNION {Ends(rs[1], s, p) : p \in P})

\* P: the offsets reached after exactly k repetitions
EndsRep(r, s, P, k, lo, hi) ==
  (IF k >= lo THEN P ELSE {})
  \cup (IF k < hi /\ P # {}
        THEN EndsRep(r, s, UNION {Ends(r, s, p) : p \in P}, k + 1, lo, hi)
        ELSE {})

\* re.match(pat, s) is not None
ReMatch(pat, s) == Ends(pat, s, 0) # {}

\* re.search(pat, s): the offset of the leftmost match, or None
SearchStart(pat, s) ==
  LET hits == {i \in 0..Len(s) : Ends(pat, s, i) # {}}
  IN IF hits = {} THEN None ELSE Min(hits)

\* re.search(pat, s).group(0) for a pattern whose greedy match is its
\* longest match at the leftmost start
SearchGroup0(pat, s) ==
  LET i == SearchStart(pat, s)
  IN SubSeq(s, i + 1, Max(Ends(pat, s, i)))

\* group(1) of a match of prefix(group) that starts at offset i: the greedy
\* prefix gives way only until the group can start; the group is matched
\* greedily
Group1At(prefix, group, s, i) ==
  LET p == Max({q \in Ends(prefix, s, i) : Ends(group, s, q) # {}})
  IN SubSeq(s, p + 1, Max(Ends(group, s, p)))

\* re.search(prefix(group), s).group(1)
SearchGroup1(prefix, group, s) ==
  Group1At(prefix, group, s, SearchStart(Cat(<<prefix, group>>), s))

\* ------------------------------------------------------------------------
\* extract_text_and_lines
\* ------------------------------------------------------------------------
\* page.get_text(): the text of a page, each of its lines ended by a line
\* break
GetText(page) == IF Len(page) = 0 THEN <<>> ELSE Join(<<NL>>, page) \o <<NL>>

\* full_text = "\n".join(pages)
FullText(d) == Join(<<NL>>, [k \in 1..Len(d.pages) |-> GetText(d.pages[k])])

\* stripped = [ln.strip() for ln in full_text.splitlines()]
StrippedLines(text) ==
  LET lines == Splitlines(text)
  IN [k \in 1..Len(lines) |-> StrStrip(lines[k])]

\* ------------------------------------------------------------------------
\* find_index and the pattern tables
\* ------------------------------------------------------------------------
\* re.sub(r"[=\s]+", "", s)
Simplify(s) == SelectSeq(s, LAMBDA c : c \notin (WS \cup {"="}))

\* faulty variant: only the normalised form is tried
MatchesAny_SimpOnly(patterns, raw, simp) ==
  \E k \in DOMAIN patterns : ReMatch(patterns[k], simp)

MatchesAny(patterns, raw, simp) ==
  \E k \in DOMAIN patterns : ReMatch(patterns[k], raw) \/ ReMatch(patterns[k], simp)

RECURSIVE FindLoop(_, _, _, _)
FindLoop(patterns, lc, lc_simple, idx) ==
  IF idx >= Len(lc) THEN None
  ELSE IF MatchesAny(patterns, lc[idx + 1], lc_simple[idx + 1]) THEN idx
  ELSE FindLoop(patterns, lc, lc_simple, idx + 1)

find_index(patterns, lines) ==
  LET lc == [k \in 1..Len(lines) |-> StrLower(lines[k])]
      lc_simple == [k \in 1..Len(lines) |-> Simplify(StrLower(lines[k]))]
  IN FindLoop(patterns, lc, lc_simple, 0)

W_abstract == <<"a","b","s","t","r","a","c","t">>
W_summary == <<"s","u","m","m","a","r","y">>
W_introduction == <<"i","n","t","r","o","d","u","c","t","i","o","n">>
Eq2 == RepInf(Ch({"="}), 2)
Sp == Ch(WS)
Roman == Ch({"i","v","x","l","c","d","m"})
Dashes == {"-", EN_DASH, EM_DASH}

ABSTRACT_PATTERNS ==
  << Cat(<<Bol, Lit(W_abstract), Star(Ch({":"} \cup WS)), Eol>>),
     Cat(<<Bol, Lit(W_abstract), Ch(WS \cup Dashes), Plus(Dot)>>),
     Cat(<<Bol, Lit(W_summary), Star(Ch({":"} \cup WS)), Eol>>),
     Cat(<<Bol, Eq2, Star(Sp), Lit(W_abstract), Star(Sp), Eq2, Eol>>),
     Cat(<<Bol, Lit(W_abstract), Star(Sp), Ch({":"} \cup Dashes), Star(Sp),
           Plus(Dot), Eol>>),
     Cat(<<Bol, Lit(W_summary), Star(Sp), Ch({":"} \cup Dashes), Star(Sp),
           Plus(Dot), Eol>>),
     Cat(<<Bol, Plus(Ch({"#"})), Star(Sp), Lit(W_abstract), Star(Sp), Eol>>),
     Cat(<<Bol, Lit(<<"*","*">>), Lit(W_abstract), Lit(<<"*","*">>), Eol>>) >>

INTRO_PATTERNS ==
  << Cat(<<Bol, Plus(Ch(Digit)), Opt(Ch({"."})), Star(Sp), Lit(W_introduction), Eol>>),
     Cat(<<Bol, Plus(Roman), Opt(Ch({"."})), Star(Sp), Lit(W_introduction), Eol>>),
     Cat(<<Bol, Lit(<<"s","e","c","t","i","o","n">>), Star(Sp), Plus(Ch(Digit)),
           Opt(Ch({":", "."})), Star(Sp), Lit(W_introduction), Eol>>),
     Cat(<<Bol, Lit(W_introduction), Eol>>),
     Cat(<<Bol, Lit(<<"b","a","c","k","g","r","o","u","n","d">>), Eol>>),
     Cat(<<Bol, Eq2, Star(Sp), Lit(W_introduction), Star(Sp), Eq2, Eol>>) >>


END_PATTERNS ==
  << Cat(<<Bol, Lit(<<"r","e","f","e","r","e","n","c","e","s">>), Eol>>),
     Cat(<<Bol, Lit(<<"r","e","f","e","r","e","n","c","e">>), Eol>>),
     Cat(<<Bol, Lit(<<"l","i","t","e","r","a","t","u","r","e">>), Plus(Sp),
           Lit(<<"c","i","t","e","d">>), Eol>>),
     Cat(<<Bol, Lit(<<"w","o","r","k","s">>), Plus(Sp), Lit(<<"c","i","t","e","d">>), Eol>>),
     Cat(<<Bol, Lit(<<"b","i","b","l","i","o","g","r","a","p","h","y">>), Eol>>),
     Cat(<<Bol, Lit(<<"a","c","k","n","o","w","l","e","d","g">>), Opt(Lit(<<"e","m","e","n","t","s">>)), Eol>>),
     Cat(<<Bol, Lit(<<"a","p","p","e","n","d","i","x">>), Eol>>),
     Cat(<<Bol, Lit(<<"s","u","p","p","l","e","m","e","n","t","a","r","y">>), Eol>>),
     Cat(<<Bol, Lit(<<"d","a","t","a">>), Plus(Sp),
           Lit(<<"a","v","a","i","l","a","b","i","l","i","t","y">>), Eol>>),
     Cat(<<Bol, Lit(<<"c","o","n","f","l","i","c","t","s">>), Plus(Sp),
           Lit(<<"o","f">>), Plus(Sp),
           Lit(<<"i","n","t","e","r","e","s","t">>), Eol>>),
     Cat(<<Bol, Lit(<<"f","u","n","d","i","n","g">>), Eol>>),
     Cat(<<Bol, Eq2, Star(Sp),
           Alt(<<Lit(<<"r","e","f","e","r","e","n","c","e","s">>), Lit(<<"b","i","b","l","i","o","g","r","a","p","h","y">>), Lit(<<"a","c","k","n","o","w","l","e","d","g">>),
                 Lit(<<"a","p","p","e","n","d","i","x">>), Lit(<<"s","u","p","p","l","e","m","e","n","t","a","r","y">>)>>),
           Star(Sp), Eq2, Eol>>) >>

W_keyword == <<"k","e","y","w","o","r","d">>

KEYWORDS_PATTERNS ==
  << Cat(<<Bol, Lit(W_keyword), Opt(Ch({"s"})), WordB>>),
     Cat(<<Bol, Lit(<<"a","u","t","h","o","r">>), Plus(Sp), Lit(W_keyword),
           Opt(Ch({"s"})), WordB>>),
     Cat(<<Bol, Lit(<<"k","e","y">>), Star(Sp), Lit(<<"w","o","r","d">>),
           Opt(Ch({"s"})), WordB>>),
     Cat(<<Bol, Lit(<<"i","n","d","e","x">>), Plus(Sp), Lit(<<"t","e","r","m">>),
           Opt(Ch({"s"})), WordB>>),
     Cat(<<Bol, Lit(<<"j","e","l">>), Plus(Sp), Lit(<<"c","l","a","s","s","i","f","i","c","a","t","i","o","n">>), WordB>>),
     Cat(<<Bol, Lit(<<"m","s","c">>), Plus(Sp), Lit(<<"c","l","a","s","s","i","f","i","c","a","t","i","o","n">>), WordB>>) >>

NUMBERED_PATTERNS ==
  << Cat(<<Bol, Plus(Ch(Digit)), Star(Sp), Opt(Ch({".", ")"})), Plus(Sp),
           Ch(Upper), Star(Dot)>>),
     Cat(<<Bol, Plus(Roman), Star(Sp), Opt(Ch({".", ")"})), Plus(Sp),
           Ch(Upper), Star(Dot)>>),
     Cat(<<Bol, Ch(Upper), RepInf(Ch(Upper \cup WS), 3), Eol>>) >>

\* ------------------------------------------------------------------------
\* extract_sections
\* ------------------------------------------------------------------------
PRE_INTRO_FALLBACK == 50
INTRO_ABSTRACT_MIN == 5

\* faulty variant: the fallback is one line short
PreIntroBounds_ShortFallback(stripped, abstract_idx, intro_idx) ==
  IF abstract_idx # None \/ intro_idx # None
  THEN <<0, Min({i \in {abstract_idx, intro_idx} : i # None})>>
  ELSE <<0, PRE_INTRO_FALLBACK - 1>>

\* the bounds <<lo, hi>> of the slice stripped[lo:hi] taken for pre_intro
PreIntroBounds(stripped, abstract_idx, intro_idx) ==
  IF abstract_idx # None \/ intro_idx # None
  THEN <<0, Min({i \in {abstract_idx, intro_idx} : i # None})>>
  ELSE <<0, PRE_INTRO_FALLBACK>>

first_after(stripped, start, patterns) ==
  LET j == find_index(patterns, Slice(stripped, start + 1, Len(stripped)))
  IN IF j # None THEN start + 1 + j ELSE None

KeywordsIdx(stripped) == find_index(KEYWORDS_PATTERNS, stripped)

\* faulty variant: a keywords line before the abstract heading is taken too
KwAfter_Anywhere(keywords_idx, abstract_idx) == keywords_idx

KwAfter(keywords_idx, abstract_idx) ==
  IF keywords_idx # None /\ keywords_idx > abstract_idx THEN keywords_idx ELSE None

IntroAfter(intro_idx, abstract_idx) ==
  IF intro_idx # None /\ intro_idx > abstract_idx THEN intro_idx ELSE None

NumberedAfter(stripped, abstract_idx, kw_after, intro_after) ==
  IF kw_after = None /\ intro_after = None
  THEN first_after(stripped, abstract_idx, NUMBERED_PATTERNS)
  ELSE None

AbsEnd(stripped, kw_after, intro_after, numbered_after) ==
  Min({c \in {kw_after, intro_after, numbered_after, Len(stripped)} : c # None})

\* (?i)abstract(?:[\s–—-]+)(.*)
INLINE_PREFIX == Cat(<<LitI(W_abstract), Plus(Ch(WS \cup Dashes))>>)
INLINE_GROUP == Star(Dot)

\* the abstract end computed for a document with an abstract heading
AbsEndOf(stripped, abstract_idx, intro_idx) ==
  LET kw_after == KwAfter(KeywordsIdx(stripped), abstract_idx)
      intro_after == IntroAfter(intro_idx, abstract_idx)
  IN AbsEnd(stripped, kw_after, intro_after,
            NumberedAfter(stripped, abstract_idx, kw_after, intro_after))

\* faulty variant: an introduction at the minimum index counts too
AbstractBounds_AtMin(stripped, abstract_idx, intro_idx) ==
  IF abstract_idx # None
  THEN <<abstract_idx + 1, AbsEndOf(stripped, abstract_idx, intro_idx)>>
  ELSE IF intro_idx # None /\ intro_idx >= INTRO_ABSTRACT_MIN THEN <<0, intro_idx>>
  ELSE <<0, 0>>

\* the bounds of the slice taken for the abstract (<<0, 0>>: none taken)
AbstractBounds(stripped, abstract_idx, intro_idx) ==
  IF abstract_idx # None
  THEN <<abstract_idx + 1, AbsEndOf(stripped, abstract_idx, intro_idx)>>
  ELSE IF intro_idx # None /\ intro_idx > INTRO_ABSTRACT_MIN THEN <<0, intro_idx>>
  ELSE <<0, 0>>

\* the inline text of the heading line, as the list put before the slice
InlineAbstract(stripped, abstract_idx) ==
  IF abstract_idx # None
     /\ ReMatch(Cat(<<INLINE_PREFIX, INLINE_GROUP>>), stripped[abstract_idx + 1])
  THEN <<StrStrip(Group1At(INLINE_PREFIX, INLINE_GROUP,
                           stripped[abstract_idx + 1], 0))>>
  ELSE <<>>

MainBodyBounds(stripped, abstract_idx, intro_idx, end_idx) ==
  << IF intro_idx # None THEN intro_idx
     ELSE IF abstract_idx # None THEN abstract_idx + 1 ELSE 0,
     IF end_idx # None THEN end_idx ELSE Len(stripped) >>

EndMatterBounds(stripped, end_idx) ==
  IF end_idx # None THEN <<end_idx + 1, Len(stripped)>> ELSE <<0, 0>>

\* the four lists extract_sections returns, with the bounds they were cut at
extract_sections(stripped, abstract_idx, intro_idx, end_idx) ==
  LET pre == PreIntroBounds(stripped, abstract_idx, intro_idx)
      abs == AbstractBounds(stripped, abstract_idx, intro_idx)
      body == MainBodyBounds(stripped, abstract_idx, intro_idx, end_idx)
      endm == EndMatterBounds(stripped, end_idx)
  IN [ pre_intro |-> Slice(stripped, pre[1], pre[2]),
       abstract |-> InlineAbstract(stripped, abstract_idx)
                      \o Slice(stripped, abs[1], abs[2]),
       main_body |-> Slice(stripped, body[1], body[2]),
       end_matter |-> Slice(stripped, endm[1], endm[2]),
       bounds |-> [pre_intro |-> pre, abstract |-> abs,
                   main_body |-> body, end_matter |-> endm] ]

\* ------------------------------------------------------------------------
\* extract_metadata
\* ------------------------------------------------------------------------
\* (20\d{2}|19\d{2})
YEAR_PATTERN ==
  Alt(<<Cat(<<Lit(<<"2","0">>), Rep(Ch(Digit), 2, 2)>>),
        Cat(<<Lit(<<"1","9">>), Rep(Ch(Digit), 2, 2)>>)>>)

\* publication in ([A-Za-z &()\.\-]+), re.IGNORECASE
OUTLET_PREFIX == LitI(<<"p","u","b","l","i","c","a","t","i","o","n"," ","i","n"," ">>)
OUTLET_GROUP == Plus(Ch(Upper \cup Lower \cup {" ", "&", "(", ")", ".", "-"}))

\* \b10\.\d{4,9}/[-._;()/:A-Za-z0-9]+\b
doi_pattern ==
  Cat(<<WordB, Lit(<<"1","0",".">>), Rep(Ch(Digit), 4, 9), Ch({"/"}),
        Plus(Ch({"-", ".", "_", ";", "(", ")", "/", ":"}
                \cup Upper \cup Lower \cup Digit)),
        WordB>>)

\* arxiv[:\s]*(\d{4}\.\d{4,5}(?:v\d+)?), re.IGNORECASE
ARXIV_PREFIX == Cat(<<LitI(<<"a","r","x","i","v">>), Star(Ch({":"} \cup WS))>>)
ARXIV_GROUP ==
  Cat(<<Rep(Ch(Digit), 4, 4), Ch({"."}), Rep(Ch(Digit), 4, 5),
        Opt(Cat(<<Ch({"v", "V"}), Plus(Ch(Digit))>>))>>)

S_YEAR == <<"D","e","t","e","c","t","e","d"," ","P","u","b","l","i","c","a","t","i","o","n"," ","Y","e","a","r",":"," ">>
S_OUTLET == <<"D","e","t","e","c","t","e","d"," ","P","u","b","l","i","c","a","t","i","o","n"," ","O","u","t","l","e","t",":"," ">>
S_DOI == <<"D","e","t","e","c","t","e","d"," ","D","O","I",":"," ">>
S_DOI_URL == <<"D","e","t","e","c","t","e","d"," ","D","O","I"," ","U","R","L",":"," ","h","t","t","p","s",":","/","/","d","o","i",".","o","r","g","/">>
S_ARXIV_ID == <<"D","e","t","e","c","t","e","d"," ","a","r","X","i","v"," ","I","D",":"," ">>
S_ARXIV_URL == <<"D","e","t","e","c","t","e","d"," ","a","r","X","i","v"," ","U","R","L",":"," ","h","t","t","p","s",":","/","/","a","r","x","i","v",".","o","r","g","/","a","b","s","/">>
S_NO_ARXIV == <<"N","o"," ","a","r","X","i","v"," ","I","D"," ","d","e","t","e","c","t","e","d",".">>
S_OPEN_ACCESS == <<"D","e","t","e","c","t","e","d"," ","O","p","e","n"," ","A","c","c","e","s","s",":"," ">>
S_OUTLET_ARXIV == S_OUTLET \o <<"a","r","X","i","v">>
S_YES == <<"Y","e","s">>
S_NO == <<"N","o">>

license_markers ==
  << <<"c","r","e","a","t","i","v","e"," ","c","o","m","m","o","n","s">>,
     <<"c","c"," ","b","y">>,
     <<"c","c","-","b","y">>,
     <<"o","p","e","n"," ","a","c","c","e","s","s"," ","a","r","t","i","c","l","e">>,
     <<"o","p","e","n","-","a","c","c","e","s","s"," ","a","r","t","i","c","l","e">>,
     <<"o","p","e","n"," ","a","c","c","e","s","s">>,
     <<"d","i","s","t","r","i","b","u","t","e","d"," ","u","n","d","e","r"," ","t","h","e"," ","t","e","r","m","s"," ","o","f"," ","t","h","e">>,
     <<"t","h","i","s"," ","i","s"," ","a","n"," ","o","p","e","n"," ","a","c","c","e","s","s"," ","a","r","t","i","c","l","e">>,
     <<"o","p","e","n"," ","a","c","c","e","s","s"," ","f","u","n","d","e","d">>,
     <<"p","u","b","l","i","c"," ","d","o","m","a","i","n">>,
     <<"u",".","s","."," ","g","o","v","e","r","n","m","e","n","t"," ","w","o","r","k">> >>

\* the year line: the first of creationDate, modDate that holds a year
RECURSIVE YearLoop(_, _)
YearLoop(vals, k) ==
  IF k > Len(vals) THEN <<>>
  ELSE IF Len(vals[k]) > 0 /\ SearchStart(YEAR_PATTERN, vals[k]) # None
       THEN <<S_YEAR \o SearchGroup0(YEAR_PATTERN, vals[k])>>
       ELSE YearLoop(vals, k + 1)

\* faulty variant: modDate is looked at before creationDate
YearLines_ModDateFirst(d) == YearLoop(<<d.metadata.modDate, d.metadata.creationDate>>, 1)

YearLines(d) == YearLoop(<<d.metadata.creationDate, d.metadata.modDate>>, 1)

\* the uri of each first-page link, stripped, the empty ones left out;
\* nothing when get_links() raises
LinkChunks(d) ==
  IF d.links_raise THEN <<>>
  ELSE SelectSeq([k \in 1..Len(d.links) |-> StrStrip(d.links[k])],
                 LAMBDA u : Len(u) > 0)

\* faulty variant: the identifiers are looked for in pre_intro alone
id_chunks_PreIntroOnly(d, pre_intro) ==
  IF Len(pre_intro) > 0 THEN <<Join(<<NL>>, pre_intro)>> ELSE <<>>

id_chunks(d, pre_intro) ==
  (IF Len(pre_intro) > 0 THEN <<Join(<<NL>>, pre_intro)>> ELSE <<>>)
  \o (IF Len(d.pages) > 0 THEN <<GetText(d.pages[1])>> \o LinkChunks(d) ELSE <<>>)

id_text(d, pre_intro) == Join(<<NL>>, id_chunks(d, pre_intro))

OutletLines(pre_intro) ==
  LET t == Join(<<NL>>, pre_intro)
  IN IF SearchStart(Cat(<<OUTLET_PREFIX, OUTLET_GROUP>>), t) # None
     THEN <<S_OUTLET \o StrStrip(SearchGroup1(OUTLET_PREFIX, OUTLET_GROUP, t))>>
     ELSE <<>>

DoiLines(idt) ==
  IF SearchStart(doi_pattern, idt) # None
  THEN LET detected_doi == SearchGroup0(doi_pattern, idt)
       IN <<S_DOI \o detected_doi, S_DOI_URL \o detected_doi>>
  ELSE <<>>

\* faulty variant: nothing is said when no arXiv identifier is found
ArxivLines_Silent(idt) ==
  IF SearchStart(Cat(<<ARXIV_PREFIX, ARXIV_GROUP>>), idt) # None
  THEN LET detected_arxiv == SearchGroup1(ARXIV_PREFIX, ARXIV_GROUP, idt)
       IN <<S_ARXIV_ID \o detected_arxiv, S_ARXIV_URL \o detected_arxiv>>
  ELSE <<>>

ArxivLines(idt) ==
  IF SearchStart(Cat(<<ARXIV_PREFIX, ARXIV_GROUP>>), idt) # None
  THEN LET detected_arxiv == SearchGroup1(ARXIV_PREFIX, ARXIV_GROUP, idt)
       IN <<S_ARXIV_ID \o detected_arxiv, S_ARXIV_URL \o detected_arxiv>>
  ELSE <<S_NO_ARXIV>>

\* faulty variant: the license markers are looked for in pre_intro alone
LicenseText_PreIntroOnly(full_text, pre_intro) ==
  StrLower(Join(<<NL>>, pre_intro))

\* the text the license markers are looked for in
LicenseText(full_text, pre_intro) ==
  StrLower(Join(<<NL>>, pre_intro) \o <<NL>> \o full_text)

open_access(meta_lines, full_text, pre_intro) ==
  LET text_lower == LicenseText(full_text, pre_intro)
  IN IF \E k \in DOMAIN license_markers : Contains(text_lower, license_markers[k])
     THEN S_YES
     ELSE IF \E k \in DOMAIN meta_lines : Contains(meta_lines[k], S_OUTLET_ARXIV)
     THEN S_YES
     ELSE S_NO

extract_metadata(d, full_text, pre_intro) ==
  LET idt == id_text(d, pre_intro)
      found == YearLines(d) \o OutletLines(pre_intro) \o DoiLines(idt)
                 \o ArxivLines(idt)
      meta_lines == Append(found,
                           S_OPEN_ACCESS \o open_access(found, full_text, pre_intro))
  IN IF Len(meta_lines) > 0 THEN Join(<<NL>>, meta_lines) \o <<NL>> ELSE <<>>

\* ------------------------------------------------------------------------
\* extract_text_from_attachment: the value returned
\* ------------------------------------------------------------------------
\* faulty variant: pre_intro is the front-matter lines alone
SectionMap_BarePreIntro(sec, meta_block, full_text) ==
  LET kept == SelectSeq([k \in 1..Len(sec.abstract) |-> StrStrip(sec.abstract[k])],
                        LAMBDA ln : Len(ln) > 0)
  IN [ sections |->
         [ pre_intro |-> StrStrip(Join(<<NL>>, sec.pre_intro)),
           abstract |-> StrStrip(Join(<<" ">>, kept)),
           main_body |-> StrStrip(Join(<<NL>>, sec.main_body)),
           end_matter |-> StrStrip(Join(<<NL>>, sec.end_matter)) ],
       full_text |-> full_text ]

SectionMap(sec, meta_block, full_text) ==
  LET pre_intro_section == StrStrip(meta_block \o Join(<<NL>>, sec.pre_intro))
      kept == SelectSeq([k \in 1..Len(sec.abstract) |-> StrStrip(sec.abstract[k])],
                        LAMBDA ln : Len(ln) > 0)
  IN [ sections |->
         [ pre_intro |-> IF Len(pre_intro_section) = 0 THEN full_text
                         ELSE pre_intro_section,
           abstract |-> StrStrip(Join(<<" ">>, kept)),
           main_body |-> StrStrip(Join(<<NL>>, sec.main_body)),
           end_matter |-> StrStrip(Join(<<NL>>, sec.end_matter)) ],
       full_text |-> full_text ]

\* ------------------------------------------------------------------------
\* download_pdf
\* ------------------------------------------------------------------------
DEFAULT_RETRIES == 3
DEFAULT_BACKOFF == 1

\* the exceptions of requests.get and raise_for_status, all RequestException
TransportErrors == {"ConnectionError", "Timeout", "HTTPError"}

\* download_pdf(url, retries, backoff_factor) about to enter its loop
NewDownload(retries, backoff_factor) ==
  [ retries |-> retries, backoff_factor |-> backoff_factor,
    attempt |-> 0,        \* the loop variable
    at |-> "loop",        \* "idle", "loop", "returned" or "raised"
    gets |-> 0,           \* the calls of requests.get
    sleeps |-> <<>>,      \* the arguments of time.sleep, in order
    errs |-> <<>>,        \* the transport errors caught, in order
    outcome |-> "none",   \* "document", "None", "RuntimeError" or "other"
    cause |-> "none" ]    \* the error the RuntimeError wraps

\* ------------------------------------------------------------------------
\* FieldProcessor
\* ------------------------------------------------------------------------
\* a dict as a function: the empty dict, and d[k] = v
EmptyDict == <<>>
Put(d, k, v) == [x \in DOMAIN d \cup {k} |-> IF x = k THEN v ELSE d[x]]

\* response.get(name) of a name that is not there
NoValue == "None"

S_META == <<"m","e","t","a">>
S_ABSTRACT == <<"a","b","s","t","r","a","c","t">>

_default_context_scope(batch_name) ==
  LET name == StrLower(batch_name)
  IN IF Contains(name, S_META) THEN "pre_intro"
     ELSE IF Contains(name, S_ABSTRACT) THEN "abstract"
     ELSE "main_body"

\* the names of the batches, in the order their first field comes in
RECURSIVE BatchLoop(_, _, _)
BatchLoop(fields, k, names) ==
  IF k > Len(fields) THEN names
  ELSE LET field == fields[k]
       IN IF ~field.enabled \/ Len(field.batch) = 0
             \/ \E j \in DOMAIN names : names[j] = field.batch
          THEN BatchLoop(fields, k + 1, names)
          ELSE BatchLoop(fields, k + 1, Append(names, field.batch))

_build_batches(fields) == BatchLoop(fields, 1, <<>>)

\* the fields asked for in one batch
batch_fields(fields, batch_name) ==
  SelectSeq(fields, LAMBDA f : f.enabled /\ f.batch = batch_name /\ f.prompt # "")

\* the sections argument: None, or a dict
NoneGiven == [given |-> FALSE, dict |-> EmptyDict]
Given(d) == [given |-> TRUE, dict |-> d]

\* the truth value of the sections argument: neither None nor empty
Truthy(sections) == sections.given /\ DOMAIN sections.dict # {}

\* faulty variant: a blank section is sent as it is
scoped_text_NoBlankCheck(sections, scope, full_text) ==
  IF Truthy(sections) /\ scope \in DOMAIN sections.dict
  THEN sections.dict[scope]
  ELSE full_text

\* the text sent for a batch of the given scope
scoped_text(sections, scope, full_text) ==
  LET first == IF Truthy(sections)
               THEN IF scope \in DOMAIN sections.dict THEN sections.dict[scope]
                    ELSE full_text
               ELSE full_text
  IN IF Truthy(sections) /\ Len(StrStrip(first)) = 0 THEN full_text ELSE first

\* FieldProcessor(config), and process_fields(full_text, doc, sections) about
\* to enter its loop
NewProcessor(config, full_text, sections) ==
  [ config |-> config,
    fields |-> config.fields,
    batches |-> _build_batches(config.fields),
    full_text |-> full_text,
    sections |-> sections,
    k |-> 1,                 \* the batch the loop is at
    at |-> "loop",           \* "idle", "loop" or "returned"
    sent |-> <<>>,           \* <<batch, text>> of the calls of get_llm_response
    complete |-> TRUE,       \* every response so far held every field asked for
    log |-> <<>>,            \* <<batch, outcome>> of the batches gone through:
                             \* "answered", "missing", "invalid" or "raised"
    results |-> EmptyDict,
    warnings |-> EmptyDict ]

\* ------------------------------------------------------------------------
\* set_processing_status and process_record_async_with_status
\* ------------------------------------------------------------------------
\* a text field of a record: absent, or a text
NoField == [present |-> FALSE, text |-> <<>>]
Field(t) == [present |-> TRUE, text |-> t]

S_NA == <<"N","/","A">>
DOI_NOT_FOUND == "DOI/URL not found"

\* faulty variant: no Error key is sent when no message is given
status_fields_KeepError(status, error_message) ==
  IF error_message # NoValue /\ error_message # ""
  THEN ("Processing Status" :> status) @@ ("Error" :> error_message)
  ELSE ("Processing Status" :> status)

\* the fields set_processing_status hands to update_record
status_fields(status, error_message) ==
  IF error_message # NoValue /\ error_message # ""
  THEN ("Processing Status" :> status) @@ ("Error" :> error_message)
  ELSE ("Processing Status" :> status) @@ ("Error" :> NoValue)

\* update_record: the fields given replace those of the record
Updated(record, fields) ==
  [k \in DOMAIN record \cup DOMAIN fields |->
     IF k \in DOMAIN fields THEN fields[k] ELSE record[k]]

\* faulty variant: 'n/a' is compared as it is written
doi_missing_CaseSensitive(doi_url) ==
  \/ ~doi_url.present
  \/ Len(doi_url.text) = 0
  \/ Len(StrStrip(doi_url.text)) = 0
  \/ StrStrip(doi_url.text) = S_NA

\* not doi_url or str(doi_url).strip() == "" or ....upper() == "N/A"
doi_missing(doi_url) ==
  \/ ~doi_url.present
  \/ Len(doi_url.text) = 0
  \/ Len(StrStrip(doi_url.text)) = 0
  \/ StrUpper(StrStrip(doi_url.text)) = S_NA

\* process_record_async_with_status(record_id) about to fetch the record
NewWorker ==
  [ at |-> "fetch",       \* "fetch", "mark", "process", "handler", "refetch",
                          \* "complete", "ended" or "crashed"
    current_status |-> "unbound",
    started |-> FALSE,    \* process_record_by_id was called
    raised |-> FALSE,     \* process_record_by_id raised
    e |-> NoValue,        \* str(e) in the except clauses
    doi_url |-> NoField,  \* the DOI/URL of the record fetched again
    writes |-> <<>> ]     \* <<status, error_message, fields>> of the status writes

\* ------------------------------------------------------------------------
\* _respect_rate_limit
\* ------------------------------------------------------------------------
\* time is counted in units of 0.05 s
_DEFAULT_MIN_REQUEST_INTERVAL == 3

\* OPENAI_MIN_REQUEST_INTERVAL: not set, or set to a number
Unset == [set |-> FALSE, value |-> 0]
SetTo(v) == [set |-> TRUE, value |-> v]

\* max(0.0, float(os.getenv("OPENAI_MIN_REQUEST_INTERVAL", default)))
_MIN_REQUEST_INTERVAL(env) ==
  Max({0, IF env.set THEN env.value ELSE _DEFAULT_MIN_REQUEST_INTERVAL})

\* delay of _respect_rate_limit, from the clock read under the lock
delay_of(now, last, interval) ==
  IF now - last < interval THEN interval - (now - last) ELSE 0

\* a thread about to call _respect_rate_limit
NewCaller == [at |-> "call",     \* "call", "sleep", "woke" or "returned"
              wake |-> 0,        \* the time the sleep is over, at the earliest
              n |-> 0]           \* the calls that returned

\* the module after import and the threads that will call it, at time clock
NewLimiter(env, clock, threads) ==
  [ interval |-> _MIN_REQUEST_INTERVAL(env),
    clock |-> clock,             \* time.monotonic()
    _LAST_CALL_TIME |-> 0,
    th |-> [t \in threads |-> NewCaller],
    released |-> <<>>,           \* <<thread, time>> of the returns, in order
    sleeps |-> <<>> ]            \* <<thread, delay>> of the calls of time.sleep

\* ------------------------------------------------------------------------
\* The /process endpoint
\* ------------------------------------------------------------------------
\* request.get_json(silent=True): None (no JSON), a non-empty JSON array, or
\* an object with or without the keys record_id and token
NoBody == [kind |-> "none", record_id |-> NoValue, token |-> NoValue]
ListBody == [kind |-> "list", record_id |-> NoValue, token |-> NoValue]
ObjectBody(record_id, token) == [kind |-> "object", record_id |-> record_id, token |-> token]

\* not data or not data.get("record_id")
record_id_missing(data) ==
  \/ data.kind = "none"
  \/ data.kind = "object" /\ data.record_id \in {NoValue, ""}

\* process(): the status code of the response, and whether the record is
\* handed to the pool; a JSON value without get() ends in an AttributeError
process(data, API_SECRET) ==
  IF data.kind = "list" THEN [code |-> 500, submit |-> FALSE]
  ELSE IF record_id_missing(data) THEN [code |-> 400, submit |-> FALSE]
  ELSE IF data.token # API_SECRET THEN [code |-> 403, submit |-> FALSE]
  ELSE [code |-> 200, submit |-> TRUE]

\* the application after import, with PRISM_API_SECRET set or not (None)
NewEndpoint(secret) ==
  [ API_SECRET |-> secret,
    queue |-> <<>>,          \* the record ids submitted to the executor
    responses |-> <<>> ]     \* <<request body, status code, submitted>>

\* ------------------------------------------------------------------------
\* process_single_record
\* ------------------------------------------------------------------------
\* the values of extracted fields: None, a text, or a list of texts
PyNone == [kind |-> "None", items |-> <<>>]
Str(t) == [kind |-> "str", items |-> <<t>>]
List(ts) == [kind |-> "list", items |-> ts]

\* {k: "\n".join(v) if isinstance(v, list) else v for k, v in results.items()}
postprocess_results(results) ==
  [k \in DOMAIN results |->
     IF results[k].kind = "list" THEN Str(Join(<<NL>>, results[k].items)) ELSE results[k]]

K_DOI_URL == "DOI/URL"
S_ARXIV_ABS == <<"a","r","x","i","v",".","o","r","g","/","a","b","s","/">>
S_ARXIV_ABS_URL == <<"h","t","t","p","s",":","/","/">> \o S_ARXIV_ABS
S_ARXIV_PDF_URL == <<"h","t","t","p","s",":","/","/","a","r","x","i","v",".","o","r","g","/","p","d","f","/">>
S_PDF_SUFFIX == <<".","p","d","f">>

\* bool(fields.get(key)) of a text field
FieldTruthy(f) == f.present /\ Len(f.text) > 0

\* url.rstrip("/").split("/")[-1]
RStripSlash(url) ==
  LET kept == {k \in 1..Len(url) : url[k] # "/"}
  IN IF kept = {} THEN <<>> ELSE SubSeq(url, 1, Max(kept))
LastSegment(url) ==
  LET r == RStripSlash(url)
      slashes == {k \in 1..Len(r) : r[k] = "/"}
  IN IF slashes = {} THEN r ELSE SubSeq(r, Max(slashes) + 1, Len(r))

\* fields.get("DOI/URL") or fields.get("Source URL")
source_url(fields) == IF FieldTruthy(fields.doi_url) THEN fields.doi_url ELSE fields.source_url

\* the canonical source URL: there is one only when the record has no PDF
\* attached and a source URL (lines 124-140)
canonical_source_url(fields) ==
  IF fields.pdf \/ ~FieldTruthy(source_url(fields)) THEN NoField
  ELSE LET url == StrStrip(source_url(fields).text)
       IN IF Contains(url, S_ARXIV_ABS)
          THEN Field(S_ARXIV_ABS_URL \o LastSegment(url))
          ELSE Field(url)

\* the attachment handed to extract_text_from_attachment: the first PDF of
\* the record, a {"url": ...} made from the source URL, or None
attachment(fields) ==
  IF fields.pdf THEN [kind |-> "pdf", url |-> <<>>]
  ELSE IF ~FieldTruthy(source_url(fields)) THEN [kind |-> "None", url |-> <<>>]
  ELSE LET url == StrStrip(source_url(fields).text)
       IN [kind |-> "url",
           url |-> IF Contains(url, S_ARXIV_ABS)
                   THEN S_ARXIV_PDF_URL \o LastSegment(url) \o S_PDF_SUFFIX
                   ELSE url]

\* faulty variant: the extracted DOI/URL is kept although the user gave one
fields_to_update_KeepExtracted(fields, results) ==
  LET post == postprocess_results(results)
      canonical == canonical_source_url(fields)
  IN IF ~FieldTruthy(fields.doi_url) /\ FieldTruthy(canonical) /\ K_DOI_URL \notin DOMAIN post
     THEN post @@ (K_DOI_URL :> Str(canonical.text))
     ELSE post

\* the fields sent to the record store (lines 163-169)
fields_to_update(fields, results) ==
  LET post == postprocess_results(results)
      had_user_url == FieldTruthy(fields.doi_url)
      canonical == canonical_source_url(fields)
      kept == IF had_user_url /\ K_DOI_URL \in DOMAIN post
              THEN [k \in DOMAIN post \ {K_DOI_URL} |-> post[k]]
              ELSE post
  IN IF ~had_user_url /\ FieldTruthy(canonical) /\ K_DOI_URL \notin DOMAIN kept
     THEN kept @@ (K_DOI_URL :> Str(canonical.text))
     ELSE kept

\* process_single_record(record, processor) about to start
NewRecordRun(fields) ==
  [ fields |-> fields,        \* doi_url, source_url: text fields; pdf: a PDF is attached
    at |-> "start",           \* "idle", "start", "extract", "fields", "update",
                              \* "backfill", "done" or "raised"
    results |-> EmptyDict,    \* what process_fields returned
    updates |-> <<>> ]        \* the fields of the calls of update_record

\* ------------------------------------------------------------------------
\* State: one invocation of extract_text_from_attachment
\* ------------------------------------------------------------------------
VARIABLES
  doc,           \* the document: pages (lines of text), metadata, first-page links
  pc,            \* the position in extract_text_from_attachment
  handle,        \* "none", "open" or "closed": the fitz document handle
  full_text,     \* full_text of extract_text_and_lines
  stripped,      \* stripped of extract_text_and_lines
  abstract_idx,  \* the three boundary indices (None: not found)
  intro_idx,
  end_idx,
  sec,           \* what extract_sections returned
  meta_block,    \* what extract_metadata returned
  result,        \* the mapping returned to the caller
  closes,        \* the calls of doc.close() in this invocation
  failure,       \* "none", or the step whose exception is in flight or was raised
  calls,         \* the invocations so far, this one included
  runs,          \* <<document, mapping>> of the earlier invocations that returned
  dl,            \* one call of download_pdf
  fp,            \* one FieldProcessor and one call of its process_fields
  wk,            \* the webhook workers: process_record_async_with_status each
  store,         \* the record in the record store
  rl,            \* the rate limiter of extractors.py and the threads calling it
  ep,            \* the /process endpoint: the secret, the pool's queue, the responses
  ps             \* one call of process_single_record

\* the state outside extract_text_from_attachment
others == <<rl, ep, ps>>
outside == <<dl, fp, wk, store, others>>

\* the state of extract_text_from_attachment
pipeline == <<doc, pc, handle, full_text, stripped, abstract_idx, intro_idx, end_idx,
              sec, meta_block, result, closes, failure, calls, runs>>

vars == <<pipeline, outside>>

\* what a step of the pipeline leaves alone
ctl == <<closes, failure, calls, runs, outside>>

NoSections ==
  [ pre_intro |-> <<>>, abstract |-> <<>>, main_body |-> <<>>, end_matter |-> <<>>,
    bounds |-> [pre_intro |-> <<0, 0>>, abstract |-> <<0, 0>>,
                main_body |-> <<0, 0>>, end_matter |-> <<0, 0>>] ]

NoResult == SectionMap(NoSections, <<>>, <<>>)

\* ------------------------------------------------------------------------
\* Documents the model is run on
\* ------------------------------------------------------------------------
MaxLines == 4
MaxMetaLines == 3
MaxPad == 2
MaxCalls == 3
MaxRetries == 3
MaxBackoff == 2
MaxFields == 2
MaxTime == 6
MaxStart == 1
MaxRequests == 3
MaxYearLines == 2
MaxPosts == 2

L_Abstract == <<"A","b","s","t","r","a","c","t">>
L_AbstractColon == <<"A","b","s","t","r","a","c","t",":"," ","X">>
L_AbstractDash == <<"A","b","s","t","r","a","c","t"," ","-"," ","X">>
L_Keywords == <<"K","e","y","w","o","r","d","s">>
L_Introduction == <<"I","n","t","r","o","d","u","c","t","i","o","n">>
L_References == <<"R","e","f","e","r","e","n","c","e","s">>
L_Text == <<"Y"," ">>
L_Blank == <<>>
L_Numbered == <<"2"," ","M","e","t","h","o","d","s">>
L_WorksCited == <<"W","o","r","k","s"," ","C","i","t","e","d">>
L_SpacedAbstract == <<"A"," ","B"," ","S"," ","T"," ","R"," ","A"," ","C"," ","T">>
L_SummaryDash == <<"S","u","m","m","a","r","y"," ","-"," ","X">>
L_Doi == <<"1","0",".","1","2","3","4","/","a">>
L_License == <<"C","C"," ","B","Y">>
L_Outlet == <<"p","u","b","l","i","c","a","t","i","o","n"," ","i","n"," ","a","r","X","i","v">>
L_Arxiv == <<"a","r","X","i","v",":","2","1","0","1",".","1","2","3","4">>
U_DoiLink == <<"h","t","t","p","s",":","/","/","d","o","i",".","o","r","g","/","1","0",".","5","5","5","5","/","z"," ">>
M_Date == <<"D",":","2","0","2","1","0","6","1","5">>
M_Old == <<"1","9","9","8","Z">>
M_NoYear == <<"D",":","2","1">>
L_YearText == <<"i","n"," ","2","0","1","9">>

\* the threads of a pool, and the settings of OPENAI_MIN_REQUEST_INTERVAL
Threads == {"t1", "t2"}
IntervalSettings == {Unset, SetTo(-1), SetTo(0), SetTo(2)}

\* the bodies of the requests to /process
Bodies ==
  {NoBody, ListBody}
    \cup {ObjectBody(r, t) : r \in {NoValue, "", "rec1"},
                             t \in {NoValue, "", "s3cret", "wrong"}}

\* the URLs of a record and the fields an extraction may give
U_User == <<"1","0",".","1","/","x">>
U_Page == <<" ","h","t","t","p",":","/","/","a",".","b","/","c"," ">>
U_ArxivAbs == <<"h","t","t","p",":","/","/","a","r","x","i","v",".","o","r","g","/","a","b","s","/","2","1","0","1","/">>
U_Found == <<"1","0",".","2","/","y">>
UserUrls == {NoField, Field(<<>>), Field(U_User), Field(U_ArxivAbs)}
SourceUrls == {NoField, Field(U_Page), Field(U_ArxivAbs)}
Extracted ==
  { EmptyDict,
    "Title" :> Str(<<"T">>),
    "Authors" :> List(<<<<"A">>, <<"B">>>>),
    K_DOI_URL :> Str(U_Found),
    K_DOI_URL :> PyNone,
    (K_DOI_URL :> Str(U_Found)) @@ ("Title" :> Str(<<"T">>)) }

\* headings and text that bound the abstract
SegLines ==
  {L_Abstract, L_AbstractDash, L_Keywords, L_Introduction, L_Text, L_Blank,
   L_Numbered}

\* headings in the forms that tell the lowercased, the normalised and the
\* untouched line apart
FindLines ==
  {L_AbstractColon, L_SpacedAbstract, L_SummaryDash, L_Introduction, L_WorksCited,
   L_Numbered}

MetaLines == {L_Introduction, L_References, L_Doi, L_License, L_Outlet, L_Arxiv}

SeqsUpTo(V, n) == UNION {[1..k -> V] : k \in 0..n}

NoMetadata == [creationDate |-> <<>>, modDate |-> <<>>]

PlainDoc(lines) ==
  [pages |-> <<lines>>, metadata |-> NoMetadata, links |-> <<>>, links_raise |-> FALSE]

\* single-page documents of headings and text
SegDocs == {PlainDoc(ls) : ls \in SeqsUpTo(SegLines, MaxLines)}

\* single-page documents of heading variants
FindDocs == {PlainDoc(ls) : ls \in SeqsUpTo(FindLines, MaxLines)}

\* long documents: filler lines, then up to two lines of headings and text
Filler(n) == [k \in 1..n |-> L_Text]

LongDocs ==
  {PlainDoc(Filler(n) \o ls) :
     n \in (PRE_INTRO_FALLBACK - 2)..(PRE_INTRO_FALLBACK + MaxPad),
     ls \in SeqsUpTo({L_Abstract, L_Introduction, L_References, L_Text}, 2)}

\* documents whose first heading is near index 5: filler lines, then up to
\* two lines of headings and text
IntroDocs ==
  {PlainDoc(Filler(n) \o ls) :
     n \in (INTRO_ABSTRACT_MIN - 1)..(INTRO_ABSTRACT_MIN + MaxPad),
     ls \in SeqsUpTo({L_Abstract, L_Introduction, L_References, L_Text}, 2)}

\* batch names, fields, texts and configurations for FieldProcessor
B_main == <<"m","a","i","n">>
B_Metadata == <<"M","e","t","a","d","a","t","a">>
B_Abstract == <<"A","b","s","t","r","a","c","t">>
LLM_RESULT == "LLM result"

FieldPool ==
  { [name |-> "Summary", prompt |-> "Summarize", batch |-> B_main, enabled |-> TRUE],
    [name |-> "Title", prompt |-> "Give the title", batch |-> B_Metadata, enabled |-> TRUE],
    [name |-> "Aim", prompt |-> "State the aim", batch |-> B_Abstract, enabled |-> TRUE],
    [name |-> "Notes", prompt |-> "Take notes", batch |-> B_main, enabled |-> FALSE],
    [name |-> "Venue", prompt |-> "", batch |-> B_Metadata, enabled |-> TRUE] }

Configs ==
  { [fields |-> fs, auto_fields |-> af] :
      fs \in {f \in SeqsUpTo(FieldPool, MaxFields) :
                \A i, j \in DOMAIN f : f[i] = f[j] => i = j},
      af \in {EmptyDict, [Abstract |-> "sections.abstract"]} }

T_full == <<"f","u","l","l">>
T_blank == <<" ", NL>>
T_section == [pre_intro |-> <<"p","r","e">>, abstract |-> <<" ","a","b","s">>,
              main_body |-> <<"m","a","i","n">>]

\* no sections, the empty mapping, and mappings in which each scope is
\* missing, blank or has text
SectionMaps ==
  {NoneGiven} \cup
  UNION { { Given([k \in keys |-> IF k \in blank THEN T_blank ELSE T_section[k]]) :
              blank \in SUBSET keys } :
          keys \in SUBSET {"pre_intro", "abstract", "main_body"} }

\* DOI/URL values of a record, exception messages
DoiValues ==
  { NoField, Field(<<>>), Field(<<" ", " ">>), Field(S_NA),
    Field(<<"n","/","a">>), Field(<<" ","n","/","A"," ">>),
    Field(<<"h","t","t","p",":","/","/","x">>) }
ExcMessages == {"boom", ""}
STORE_ERROR == "503 Server Error"

\* the documents of repeated invocations
RunDocs ==
  { PlainDoc(<<L_Abstract, L_Text, L_Introduction>>),
    PlainDoc(<<L_Text, L_References, L_Doi>>),
    PlainDoc(<<>>) }

\* documents with and without document properties and first-page links
DocExtras ==
  { [metadata |-> NoMetadata, links |-> <<>>, links_raise |-> FALSE],
    [metadata |-> NoMetadata, links |-> <<U_DoiLink>>, links_raise |-> FALSE],
    [metadata |-> [creationDate |-> M_Date, modDate |-> <<>>],
     links |-> <<U_DoiLink>>, links_raise |-> TRUE] }

Pages(ls, cut) ==
  IF cut >= Len(ls) THEN <<ls>> ELSE <<SubSeq(ls, 1, cut), SubSeq(ls, cut + 1, Len(ls))>>

\* different lines, on one page or split over two, the first possibly empty
MetaDocs ==
  { [pages |-> Pages(ls, cut), metadata |-> x.metadata, links |-> x.links,
     links_raise |-> x.links_raise] :
      <<ls, cut>> \in {<<l, c>> \in SeqsUpTo(MetaLines, MaxMetaLines) \X (0..MaxMetaLines) :
                         /\ c <= Len(l)
                         /\ \A i, j \in DOMAIN l : l[i] = l[j] => i = j},
      x \in DocExtras }
    \cup {[pages |-> <<>>, metadata |-> NoMetadata, links |-> <<>>, links_raise |-> FALSE]}

\* documents whose two date properties hold a year, hold none or are not
\* there, with and without a year in the text
YearDocs ==
  { [pages |-> <<ls>>, metadata |-> [creationDate |-> c, modDate |-> md],
     links |-> <<>>, links_raise |-> FALSE] :
      ls \in SeqsUpTo({L_Text, L_YearText}, MaxYearLines),
      c \in {<<>>, M_Date, M_Old, M_NoYear},
      md \in {<<>>, M_Date, M_Old, M_NoYear} }

\* ------------------------------------------------------------------------
\* Steps of extract_text_from_attachment
\* ------------------------------------------------------------------------
PipelineInit(docs) ==
  /\ doc \in docs
  /\ pc = "start"
  /\ handle = "none"
  /\ full_text = <<>>
  /\ stripped = <<>>
  /\ abstract_idx = None
  /\ intro_idx = None
  /\ end_idx = None
  /\ sec = NoSections
  /\ meta_block = <<>>
  /\ result = NoResult
  /\ closes = 0
  /\ failure = "none"
  /\ calls = 1
  /\ runs = {}

\* download_pdf is not called
DownloadIdle == dl = [NewDownload(DEFAULT_RETRIES, DEFAULT_BACKOFF) EXCEPT !.at = "idle"]

\* no webhook worker is at work
WebhookIdle ==
  /\ wk = <<>>
  /\ store = ("Processing Status" :> NoValue) @@ ("Error" :> NoValue)
                @@ ("DOI/URL" :> NoField)

\* no FieldProcessor is at work
FieldsIdle ==
  fp = [NewProcessor([fields |-> <<>>, auto_fields |-> EmptyDict], <<>>, NoneGiven)
          EXCEPT !.at = "idle"]

\* no thread calls _respect_rate_limit
RateIdle == rl = NewLimiter(Unset, 0, {})

\* no request has come in
EndpointIdle == ep = NewEndpoint(NoValue)

\* process_single_record is not called
RecordIdle ==
  ps = [NewRecordRun([doi_url |-> NoField, source_url |-> NoField, pdf |-> FALSE])
          EXCEPT !.at = "idle"]

\* the pipeline on one of the documents, nothing else going on
InitOn(docs) ==
  /\ PipelineInit(docs)
  /\ DownloadIdle
  /\ FieldsIdle
  /\ WebhookIdle
  /\ RateIdle
  /\ EndpointIdle
  /\ RecordIdle

\* doc = fitz.open(attachment)
Open ==
  /\ pc = "start"
  /\ handle' = "open"
  /\ pc' = "opened"
  /\ UNCHANGED <<doc, full_text, stripped, abstract_idx, intro_idx, end_idx,
                 sec, meta_block, result, ctl>>

\* faulty variant: the lines are added to a list kept between invocations
ExtractTextAndLines_Accumulating ==
  /\ pc = "opened"
  /\ full_text' = FullText(doc)
  /\ stripped' = stripped \o StrippedLines(FullText(doc))
  /\ pc' = "lines"
  /\ UNCHANGED <<doc, handle, abstract_idx, intro_idx, end_idx, sec, meta_block, result,
                 ctl>>

\* full_text, stripped = extract_text_and_lines(doc)
ExtractTextAndLines ==
  /\ pc = "opened"
  /\ full_text' = FullText(doc)
  /\ stripped' = StrippedLines(FullText(doc))
  /\ pc' = "lines"
  /\ UNCHANGED <<doc, handle, abstract_idx, intro_idx, end_idx, sec, meta_block, result,
                 ctl>>

\* the three boundary searches
LocateBoundaries ==
  /\ pc = "lines"
  /\ abstract_idx' = find_index(ABSTRACT_PATTERNS, stripped)
  /\ intro_idx' = find_index(INTRO_PATTERNS, stripped)
  /\ end_idx' = find_index(END_PATTERNS, stripped)
  /\ pc' = "located"
  /\ UNCHANGED <<doc, handle, full_text, stripped, sec, meta_block, result, ctl>>

\* pre_intro, abstract, main_body, end_matter = extract_sections(...)
Partition ==
  /\ pc = "located"
  /\ sec' = extract_sections(stripped, abstract_idx, intro_idx, end_idx)
  /\ pc' = "partitioned"
  /\ UNCHANGED <<doc, handle, full_text, stripped, abstract_idx, intro_idx, end_idx,
                 meta_block, result, ctl>>

\* meta_block = extract_metadata(doc, full_text, pre_intro)
Metadata ==
  /\ pc = "partitioned"
  /\ meta_block' = extract_metadata(doc, full_text, sec.pre_intro)
  /\ pc' = "described"
  /\ UNCHANGED <<doc, handle, full_text, stripped, abstract_idx, intro_idx, end_idx,
                 sec, result, ctl>>

\* the return statement builds the mapping
Return ==
  /\ pc = "described"
  /\ result' = SectionMap(sec, meta_block, full_text)
  /\ pc' = "returning"
  /\ UNCHANGED <<doc, handle, full_text, stripped, abstract_idx, intro_idx, end_idx,
                 sec, meta_block, ctl>>

\* the steps inside the try block, by the position they start from
StepAt(at) ==
  CASE at = "opened" -> "extract_text_and_lines"
    [] at = "lines" -> "find_index"
    [] at = "located" -> "extract_sections"
    [] at = "partitioned" -> "extract_metadata"
    [] at = "described" -> "return"

\* a step inside the try block raises: control goes to the finally clause
Raise ==
  /\ pc \in {"opened", "lines", "located", "partitioned", "described"}
  /\ failure' = StepAt(pc)
  /\ pc' = "raising"
  /\ UNCHANGED <<doc, handle, full_text, stripped, abstract_idx, intro_idx, end_idx,
                 sec, meta_block, result, closes, calls, runs, outside>>

\* fitz.open raises: no handle is acquired and the try block is not entered
OpenFails ==
  /\ pc = "start"
  /\ failure' = "open"
  /\ pc' = "raised"
  /\ UNCHANGED <<doc, handle, full_text, stripped, abstract_idx, intro_idx, end_idx,
                 sec, meta_block, result, closes, calls, runs, outside>>

\* faulty variant: the handle is closed on the normal path only
Close_NoFinally ==
  /\ pc \in {"returning", "raising"}
  /\ handle' = IF pc = "returning" THEN "closed" ELSE handle
  /\ closes' = IF pc = "returning" THEN closes + 1 ELSE closes
  /\ pc' = IF pc = "returning" THEN "done" ELSE "raised"
  /\ UNCHANGED <<doc, full_text, stripped, abstract_idx, intro_idx, end_idx,
                 sec, meta_block, result, failure, calls, runs, outside>>

\* finally: doc.close(); then the value is returned or the exception goes on
Close ==
  /\ pc \in {"returning", "raising"}
  /\ handle' = "closed"
  /\ closes' = closes + 1
  /\ pc' = IF pc = "returning" THEN "done" ELSE "raised"
  /\ UNCHANGED <<doc, full_text, stripped, abstract_idx, intro_idx, end_idx,
                 sec, meta_block, result, failure, calls, runs, outside>>

\* the next invocation, after this one returned or raised. Its local names are
\* unbound until assigned: they are left holding what the last invocation
\* put there.
Invoke ==
  /\ pc \in {"done", "raised"}
  /\ calls < MaxCalls
  /\ calls' = calls + 1
  /\ runs' = IF pc = "done" THEN runs \cup {<<doc, result>>} ELSE runs
  /\ doc' \in RunDocs
  /\ pc' = "start"
  /\ handle' = "none"
  /\ closes' = 0
  /\ failure' = "none"
  /\ UNCHANGED <<full_text, stripped, abstract_idx, intro_idx, end_idx, sec, meta_block,
                 result, outside>>

Next ==
  \/ Open
  \/ ExtractTextAndLines
  \/ LocateBoundaries
  \/ Partition
  \/ Metadata
  \/ Return
  \/ Close

\* the request succeeds: the document is returned
GetSucceeds ==
  /\ dl.at = "loop"
  /\ dl.attempt < dl.retries
  /\ dl' = [dl EXCEPT !.gets = @ + 1, !.at = "returned", !.outcome = "document"]
  /\ UNCHANGED <<pipeline, fp, wk, store, others>>

\* the request fails with a transport error: sleep and go on, or give up
GetFails ==
  /\ dl.at = "loop"
  /\ dl.attempt < dl.retries
  /\ \E exc \in TransportErrors :
       dl' = IF dl.attempt < dl.retries - 1
             THEN [dl EXCEPT !.gets = @ + 1, !.errs = Append(@, exc),
                             !.sleeps = Append(@, dl.backoff_factor * (2 ^ dl.attempt)),
                             !.attempt = @ + 1]
             ELSE [dl EXCEPT !.gets = @ + 1, !.errs = Append(@, exc),
                             !.at = "raised", !.outcome = "RuntimeError", !.cause = exc]
  /\ UNCHANGED <<pipeline, fp, wk, store, others>>

\* the response is no PDF: fitz.open raises, which is no RequestException
StreamFails ==
  /\ dl.at = "loop"
  /\ dl.attempt < dl.retries
  /\ dl' = [dl EXCEPT !.gets = @ + 1, !.at = "raised", !.outcome = "other"]
  /\ UNCHANGED <<pipeline, fp, wk, store, others>>

\* range(retries) is used up: the function ends without a return statement
LoopEnds ==
  /\ dl.at = "loop"
  /\ dl.attempt >= dl.retries
  /\ dl' = [dl EXCEPT !.at = "returned", !.outcome = "None"]
  /\ UNCHANGED <<pipeline, fp, wk, store, others>>

NextDownload ==
  \/ GetSucceeds
  \/ GetFails
  \/ StreamFails
  \/ LoopEnds

\* the batch the loop of process_fields is at, its fields and its text
ThisBatch == fp.batches[fp.k]
ThisFields == batch_fields(fp.fields, ThisBatch)
ThisText == scoped_text(fp.sections, _default_context_scope(ThisBatch), fp.full_text)

\* results[name] = response.get(name) for the fields of the batch
Collect(results, fields, response) ==
  [ x \in DOMAIN results \cup {fields[j].name : j \in DOMAIN fields} |->
      IF \E j \in DOMAIN fields : fields[j].name = x
      THEN IF x \in DOMAIN response THEN response[x] ELSE NoValue
      ELSE results[x] ]

\* a batch none of whose fields has a prompt is passed over
BatchSkipped ==
  /\ fp.at = "loop"
  /\ fp.k <= Len(fp.batches)
  /\ Len(ThisFields) = 0
  /\ fp' = [fp EXCEPT !.k = @ + 1]
  /\ UNCHANGED <<pipeline, dl, wk, store, others>>

\* the model answers with a JSON object holding some of the fields asked for
BatchAnswered ==
  /\ fp.at = "loop"
  /\ fp.k <= Len(fp.batches)
  /\ Len(ThisFields) > 0
  /\ \E given \in SUBSET {ThisFields[j].name : j \in DOMAIN ThisFields} :
       LET response == [x \in given |-> LLM_RESULT]
           missing == {ThisFields[j].name : j \in DOMAIN ThisFields} \ given
       IN fp' = [fp EXCEPT !.k = @ + 1,
                           !.sent = Append(@, <<ThisBatch, ThisText>>),
                           !.complete = @ /\ missing = {},
                           !.log = Append(@, <<ThisBatch, IF missing = {} THEN "answered"
                                                          ELSE "missing">>),
                           !.results = Collect(@, ThisFields, response),
                           !.warnings = IF missing = {} THEN @
                                        ELSE Put(@, ThisBatch, "Missing fields")]
  /\ UNCHANGED <<pipeline, dl, wk, store, others>>

\* faulty variant: a failed batch ends the loop
BatchFails_Abort ==
  /\ fp.at = "loop"
  /\ fp.k <= Len(fp.batches)
  /\ Len(ThisFields) > 0
  /\ \E outcome \in {"invalid", "raised"} :
       fp' = [fp EXCEPT !.k = Len(fp.batches) + 1,
                        !.sent = Append(@, <<ThisBatch, ThisText>>),
                        !.complete = FALSE,
                        !.log = Append(@, <<ThisBatch, outcome>>),
                        !.warnings = Put(@, ThisBatch, IF outcome = "invalid"
                                                       THEN "Invalid JSON" ELSE "raised")]
  /\ UNCHANGED <<pipeline, dl, wk, store, others>>

\* the answer is text that is no JSON, or get_llm_response raises
BatchFails ==
  /\ fp.at = "loop"
  /\ fp.k <= Len(fp.batches)
  /\ Len(ThisFields) > 0
  /\ \E outcome \in {"invalid", "raised"} :
       fp' = [fp EXCEPT !.k = @ + 1,
                        !.sent = Append(@, <<ThisBatch, ThisText>>),
                        !.complete = FALSE,
                        !.log = Append(@, <<ThisBatch, outcome>>),
                        !.warnings = Put(@, ThisBatch, IF outcome = "invalid"
                                                       THEN "Invalid JSON" ELSE "raised")]
  /\ UNCHANGED <<pipeline, dl, wk, store, others>>

\* return results, warnings
ReturnFields ==
  /\ fp.at = "loop"
  /\ fp.k > Len(fp.batches)
  /\ fp' = [fp EXCEPT !.at = "returned"]
  /\ UNCHANGED <<pipeline, dl, wk, store, others>>

NextFields ==
  \/ BatchSkipped
  \/ BatchAnswered
  \/ BatchFails
  \/ ReturnFields

\* a status write of worker w that went through
Write(w, status, error_message, next) ==
  /\ store' = Updated(store, status_fields(status, error_message))
  /\ wk' = [wk EXCEPT ![w].at = next,
                       ![w].writes = Append(@, <<status, error_message,
                                                 status_fields(status, error_message)>>)]

\* record = get_record_by_id(record_id); a record in process is left alone
FetchRecord(w) ==
  /\ wk[w].at = "fetch"
  /\ wk' = [wk EXCEPT ![w].current_status = store["Processing Status"],
                       ![w].at = IF store["Processing Status"] = "Processing"
                                 THEN "ended" ELSE "mark"]
  /\ UNCHANGED <<pipeline, dl, fp, store, others>>

\* set_processing_status(record_id, "Processing")
MarkProcessing(w) ==
  /\ wk[w].at = "mark"
  /\ Write(w, "Processing", NoValue, "process")
  /\ UNCHANGED <<pipeline, dl, fp, others>>

\* process_record_by_id(record_id) returns, having written the record or not
ProcessReturns(w) ==
  /\ wk[w].at = "process"
  /\ wk' = [wk EXCEPT ![w].started = TRUE, ![w].at = "refetch"]
  /\ \E d \in {store["DOI/URL"]} \cup DoiValues :
       store' = Updated(store, "DOI/URL" :> d)
  /\ UNCHANGED <<pipeline, dl, fp, others>>

\* process_record_by_id(record_id) raises ProcessingError or another exception
ProcessRaises(w) ==
  /\ wk[w].at = "process"
  /\ \E message \in ExcMessages :
       wk' = [wk EXCEPT ![w].started = TRUE, ![w].raised = TRUE, ![w].e = message,
                        ![w].at = "handler"]
  /\ UNCHANGED <<pipeline, dl, fp, store, others>>

\* except: set_processing_status(record_id, "Failed", str(e)); return
WriteFailed(w) ==
  /\ wk[w].at = "handler"
  /\ Write(w, "Failed", wk[w].e, "ended")
  /\ UNCHANGED <<pipeline, dl, fp, others>>

\* updated_record = get_record_by_id(record_id)
RefetchRecord(w) ==
  /\ wk[w].at = "refetch"
  /\ wk' = [wk EXCEPT ![w].doi_url = store["DOI/URL"], ![w].at = "complete"]
  /\ UNCHANGED <<pipeline, dl, fp, store, others>>

\* set_processing_status(record_id, "Complete", ...)
WriteComplete(w) ==
  /\ wk[w].at = "complete"
  /\ Write(w, "Complete",
           IF doi_missing(wk[w].doi_url) THEN DOI_NOT_FOUND ELSE NoValue, "ended")
  /\ UNCHANGED <<pipeline, dl, fp, others>>

\* a call of the record store raises (requests.RequestException): inside the
\* try block it is caught like a failure of the processing, elsewhere it
\* ends the worker
StoreCallRaises(w) ==
  /\ wk[w].at \in {"fetch", "mark", "handler", "refetch", "complete"}
  /\ wk' = IF wk[w].at = "mark"
            THEN [wk EXCEPT ![w].e = STORE_ERROR, ![w].at = "handler"]
            ELSE [wk EXCEPT ![w].at = "crashed"]
  /\ UNCHANGED <<pipeline, dl, fp, store, others>>

NextWebhook ==
  \/ \E w \in DOMAIN wk : FetchRecord(w)
  \/ \E w \in DOMAIN wk : MarkProcessing(w)
  \/ \E w \in DOMAIN wk : ProcessReturns(w)
  \/ \E w \in DOMAIN wk : ProcessRaises(w)
  \/ \E w \in DOMAIN wk : WriteFailed(w)
  \/ \E w \in DOMAIN wk : RefetchRecord(w)
  \/ \E w \in DOMAIN wk : WriteComplete(w)
  \/ \E w \in DOMAIN wk : StoreCallRaises(w)

\* with _RATE_LIMIT_LOCK: the clock is read and the delay computed; without
\* delay the call is stamped and returns, otherwise the lock is released and
\* the thread goes to sleep.  The block runs under the lock, and is taken to
\* last no time.
EnterLimiter(t) ==
  /\ rl.th[t].at = "call"
  /\ LET now == rl.clock
         delay == delay_of(now, rl._LAST_CALL_TIME, rl.interval)
     IN rl' = IF delay = 0
              THEN [rl EXCEPT !._LAST_CALL_TIME = now,
                              !.th[t].at = "returned", !.th[t].n = @ + 1,
                              !.released = Append(@, <<t, now>>)]
              ELSE [rl EXCEPT !.th[t].at = "sleep", !.th[t].wake = now + delay,
                              !.sleeps = Append(@, <<t, delay>>)]
  /\ UNCHANGED <<pipeline, dl, fp, wk, store, ep, ps>>

\* time.sleep(delay) is over
Wake(t) ==
  /\ rl.th[t].at = "sleep"
  /\ rl.clock >= rl.th[t].wake
  /\ rl' = [rl EXCEPT !.th[t].at = "woke"]
  /\ UNCHANGED <<pipeline, dl, fp, wk, store, ep, ps>>

\* with _RATE_LIMIT_LOCK: _LAST_CALL_TIME = time.monotonic(); then the return
Stamp(t) ==
  /\ rl.th[t].at = "woke"
  /\ rl' = [rl EXCEPT !._LAST_CALL_TIME = rl.clock,
                      !.th[t].at = "returned", !.th[t].n = @ + 1,
                      !.released = Append(@, <<t, rl.clock>>)]
  /\ UNCHANGED <<pipeline, dl, fp, wk, store, ep, ps>>

\* the thread calls get_llm_response once more
CallAgain(t) ==
  /\ rl.th[t].at = "returned"
  /\ Len(rl.released) < MaxRequests
  /\ rl' = [rl EXCEPT !.th[t].at = "call"]
  /\ UNCHANGED <<pipeline, dl, fp, wk, store, ep, ps>>

\* time passes
Tick ==
  /\ rl.clock < MaxTime
  /\ rl' = [rl EXCEPT !.clock = @ + 1]
  /\ UNCHANGED <<pipeline, dl, fp, wk, store, ep, ps>>

NextRate ==
  \/ \E t \in DOMAIN rl.th : EnterLimiter(t)
  \/ \E t \in DOMAIN rl.th : Wake(t)
  \/ \E t \in DOMAIN rl.th : Stamp(t)
  \/ \E t \in DOMAIN rl.th : CallAgain(t)
  \/ Tick

\* POST /process with the body given
Post(data) ==
  /\ Len(ep.responses) < MaxPosts
  /\ LET r == process(data, ep.API_SECRET)
     IN ep' = [ep EXCEPT !.responses = Append(@, <<data, r.code, r.submit>>),
                         !.queue = IF r.submit THEN Append(@, data.record_id) ELSE @]
  /\ UNCHANGED <<pipeline, dl, fp, wk, store, rl, ps>>

NextEndpoint == \E data \in Bodies : Post(data)

\* lines 120-144: without attachment and source URL the call raises
\* ProcessingError at once
ChooseAttachment ==
  /\ ps.at = "start"
  /\ ps' = [ps EXCEPT !.at = IF attachment(ps.fields).kind = "None"
                             THEN "raised" ELSE "extract"]
  /\ UNCHANGED <<pipeline, dl, fp, wk, store, rl, ep>>

\* extract_text_from_attachment returns the sections
ExtractReturns ==
  /\ ps.at = "extract"
  /\ ps' = [ps EXCEPT !.at = "fields"]
  /\ UNCHANGED <<pipeline, dl, fp, wk, store, rl, ep>>

\* process_fields returns; the fields to update are sent, if there are any
FieldsReturn ==
  /\ ps.at = "fields"
  /\ \E results \in Extracted :
       ps' = [ps EXCEPT !.results = results,
                        !.at = IF DOMAIN fields_to_update(ps.fields, results) = {}
                               THEN "done" ELSE "update"]
  /\ UNCHANGED <<pipeline, dl, fp, wk, store, rl, ep>>

\* update_record(record_id, fields_to_update) returns True
UpdateRecord ==
  /\ ps.at = "update"
  /\ ps' = [ps EXCEPT !.updates = Append(@, fields_to_update(ps.fields, ps.results)),
                      !.at = IF ~ps.fields.pdf /\ attachment(ps.fields).kind = "url"
                             THEN "backfill" ELSE "done"]
  /\ UNCHANGED <<pipeline, dl, fp, wk, store, rl, ep>>

\* update_record(record_id, {"PDF": [attachment]}); its failure is logged only
BackfillPdf ==
  /\ ps.at = "backfill"
  /\ ps' = [ps EXCEPT !.updates = Append(@, "PDF" :> List(<<attachment(ps.fields).url>>)),
                      !.at = "done"]
  /\ UNCHANGED <<pipeline, dl, fp, wk, store, rl, ep>>

\* the extraction, the field processing or the first update raises: the call
\* ends with ProcessingError
StepRaises ==
  /\ ps.at \in {"extract", "fields", "update"}
  /\ ps' = [ps EXCEPT !.at = "raised"]
  /\ UNCHANGED <<pipeline, dl, fp, wk, store, rl, ep>>

NextRecord ==
  \/ ChooseAttachment
  \/ ExtractReturns
  \/ FieldsReturn
  \/ UpdateRecord
  \/ BackfillPdf
  \/ StepRaises

\* invocations one after the other, any of which may raise
NextRuns ==
  \/ Next
  \/ Raise
  \/ OpenFails
  \/ Invoke

Init == InitOn(SegDocs)
Spec == Init /\ [][Next]_vars

InitFind == InitOn(FindDocs)
SpecFind == InitFind /\ [][Next]_vars

InitLong == InitOn(LongDocs)
SpecLong == InitLong /\ [][Next]_vars

InitMeta == InitOn(MetaDocs)
SpecMeta == InitMeta /\ [][Next]_vars

\* download_pdf for every retry count and backoff factor
InitDownload ==
  /\ PipelineInit({PlainDoc(<<>>)})
  /\ RateIdle
  /\ EndpointIdle
  /\ RecordIdle
  /\ FieldsIdle
  /\ WebhookIdle
  /\ dl \in {NewDownload(r, b) : r \in 0..MaxRetries, b \in 1..MaxBackoff}
SpecDownload == InitDownload /\ [][NextDownload]_vars

\* process_fields for every configuration and every mapping of sections
InitFields ==
  /\ PipelineInit({PlainDoc(<<>>)})
  /\ RateIdle
  /\ EndpointIdle
  /\ RecordIdle
  /\ DownloadIdle
  /\ WebhookIdle
  /\ fp \in {NewProcessor(c, T_full, sc) : c \in Configs, sc \in SectionMaps}
SpecFields == InitFields /\ [][NextFields]_vars

\* one webhook worker on a record in any state
InitWebhook ==
  /\ PipelineInit({PlainDoc(<<>>)})
  /\ RateIdle
  /\ EndpointIdle
  /\ RecordIdle
  /\ DownloadIdle
  /\ FieldsIdle
  /\ wk = [w \in {"w1"} |-> NewWorker]
  /\ store \in { ("Processing Status" :> st) @@ ("Error" :> er) @@ ("DOI/URL" :> d) :
                    st \in {NoValue, "Processing", "Complete", "Failed"},
                    er \in {NoValue, "old error"},
                    d \in DoiValues }
SpecWebhook == InitWebhook /\ [][NextWebhook]_vars

\* threads calling _respect_rate_limit, for every setting of the interval
InitRate ==
  /\ PipelineInit({PlainDoc(<<>>)})
  /\ DownloadIdle
  /\ FieldsIdle
  /\ WebhookIdle
  /\ EndpointIdle
  /\ RecordIdle
  /\ rl \in {NewLimiter(env, c, Threads) : env \in IntervalSettings, c \in 0..MaxStart}
SpecRate == InitRate /\ [][NextRate]_vars

InitYear == InitOn(YearDocs)
SpecYear == InitYear /\ [][Next]_vars

InitIntro == InitOn(IntroDocs)
SpecIntro == InitIntro /\ [][Next]_vars

\* two workers of the pool given the same record
InitWorkers ==
  /\ PipelineInit({PlainDoc(<<>>)})
  /\ RateIdle
  /\ EndpointIdle
  /\ RecordIdle
  /\ DownloadIdle
  /\ FieldsIdle
  /\ wk = [w \in {"w1", "w2"} |-> NewWorker]
  /\ store \in { ("Processing Status" :> st) @@ ("Error" :> NoValue) @@ ("DOI/URL" :> d) :
                    st \in {NoValue, "Processing", "Complete", "Failed"},
                    d \in {NoField, Field(S_NA)} }
SpecWorkers == InitWorkers /\ [][NextWebhook]_vars

\* one worker that is scheduled as long as it has a step to take
SpecWebhookFair == InitWebhook /\ [][NextWebhook]_vars /\ WF_vars(NextWebhook)

\* the endpoint with the secret set and not set
InitEndpoint ==
  /\ PipelineInit({PlainDoc(<<>>)})
  /\ RateIdle
  /\ DownloadIdle
  /\ FieldsIdle
  /\ WebhookIdle
  /\ RecordIdle
  /\ ep \in {NewEndpoint(secret) : secret \in {NoValue, "", "s3cret"}}
SpecEndpoint == InitEndpoint /\ [][NextEndpoint]_vars

\* process_single_record on records with and without DOI/URL, source URL
\* and PDF
InitRecord ==
  /\ PipelineInit({PlainDoc(<<>>)})
  /\ RateIdle
  /\ EndpointIdle
  /\ DownloadIdle
  /\ FieldsIdle
  /\ WebhookIdle
  /\ ps \in {NewRecordRun([doi_url |-> d, source_url |-> u, pdf |-> b]) :
               d \in UserUrls, u \in SourceUrls, b \in BOOLEAN}
SpecRecord == InitRecord /\ [][NextRecord]_vars

InitRuns == InitOn(RunDocs)
SpecRuns == InitRuns /\ [][NextRuns]_vars

\* ------------------------------------------------------------------------
\* Properties
\* ------------------------------------------------------------------------
\* extract_sections has returned
Partitioned == pc \in {"partitioned", "described", "returning", "done"}

\* extract_metadata has just returned (the block does not change afterwards)
Described == pc = "described"

\* the line indices a zone was cut from
ZoneRange(z) == SliceRange(Len(stripped), sec.bounds[z][1], sec.bounds[z][2])

\* the zones a line index belongs to, the abstract carved out of the range
\* that contains it
ZonesOf(k) ==
  IF k \in ZoneRange("abstract") THEN {"abstract"}
  ELSE {z \in {"pre_intro", "main_body", "end_matter"} : k \in ZoneRange(z)}

\* C1: every line index of the document belongs to exactly one of the zones
\* pre_intro, abstract, main_body, end_matter (the abstract carved out of the
\* range that contains it): no line is dropped, none is counted twice.
C1_EveryLineInExactlyOneZone ==
  Partitioned => \A k \in 0..(Len(stripped) - 1) : Cardinality(ZonesOf(k)) = 1

Disjoint(A, B) == A \cap B = {}
Before(A, B) == \A x \in A, y \in B : x < y

\* C2: the ranges of pre_intro, main_body and end_matter are pairwise disjoint
\* and in document order, and the abstract shares no line with end_matter.
C2_ZonesDisjointInOrder ==
  Partitioned =>
    /\ Before(ZoneRange("pre_intro"), ZoneRange("main_body"))
    /\ Before(ZoneRange("main_body"), ZoneRange("end_matter"))
    /\ Before(ZoneRange("pre_intro"), ZoneRange("end_matter"))
    /\ Disjoint(ZoneRange("abstract"), ZoneRange("end_matter"))

\* a line in its lowercased form, or lowercased with whitespace and "="
\* removed, matches a pattern of the list from its start
LowerOrNormMatch(patterns, line) ==
  \E k \in DOMAIN patterns :
    \/ ReMatch(patterns[k], StrLower(line))
    \/ ReMatch(patterns[k], Simplify(StrLower(line)))

\* a line as it stands, or lowercased with whitespace and "=" removed,
\* matches a pattern of the list from its start
RawOrNormMatch(patterns, line) ==
  \E k \in DOMAIN patterns :
    \/ ReMatch(patterns[k], line)
    \/ ReMatch(patterns[k], Simplify(StrLower(line)))

\* the smallest index of a line that Hit holds of, None when there is none
FirstIndex(lines, Hit(_)) ==
  LET hits == {i \in 0..(Len(lines) - 1) : Hit(lines[i + 1])}
  IN IF hits = {} THEN None ELSE Min(hits)

Reverse(seq) == [k \in 1..Len(seq) |-> seq[Len(seq) + 1 - k]]

\* the three boundary searches have just returned (the indices and the lines
\* do not change afterwards)
Located == pc = "located"

AbstractEndClaimed(a) ==
  LET kw == FirstIndex(stripped, LAMBDA ln : LowerOrNormMatch(KEYWORDS_PATTERNS, ln))
  IN Min({Len(stripped)} \cup {c \in {kw, intro_idx} : c > a})

\* the non-empty lines joined by single spaces
SpaceJoined(lines) == Join(<<" ">>, SelectSeq(lines, LAMBDA ln : Len(ln) > 0))

Returned == pc \in {"returning", "done"}

\* C4 (as stated): with the abstract heading at a, the abstract zone is
\* exactly the lines after a up to the earliest of the keywords boundary after
\* a, the introduction boundary after a and the document end; the output joins
\* its non-empty lines by single spaces.
C4_Original_LinesAfterHeading ==
  (Partitioned /\ abstract_idx # None) =>
    LET zone == Slice(stripped, abstract_idx + 1, AbstractEndClaimed(abstract_idx))
    IN /\ sec.abstract = zone
       /\ Returned => result.sections.abstract = SpaceJoined(zone)

\* C4 (amended): with the abstract heading at a, the abstract zone is the
\* inline text of the heading line, when it has one, followed by exactly the
\* lines after a up to the earliest of the keywords boundary after a, the
\* introduction boundary after a and the document end; the output joins the
\* non-empty lines of the zone by single spaces.
C4_AbstractZone ==
  (Partitioned /\ abstract_idx # None) =>
    LET zone == InlineAbstract(stripped, abstract_idx)
                  \o Slice(stripped, abstract_idx + 1, AbstractEndClaimed(abstract_idx))
    IN /\ sec.abstract = zone
       /\ Returned => result.sections.abstract = SpaceJoined(zone)

\* heading at 0, introduction at 3: the two lines between them are joined by
\* one space
C4_Witness ==
  /\ pc = "done"
  /\ abstract_idx = 0
  /\ intro_idx = 3
  /\ Len(sec.abstract) = 2
  /\ result.sections.abstract = <<"Y", " ", "Y">>

\* the text that follows "abstract" or "summary" and a run of separators
\* (colon, hyphen, dashes, whitespace) on a heading line
HEADING_WORD == Alt(<<LitI(W_abstract), LitI(W_summary)>>)
HEADING_SEPARATORS == Plus(Ch({":"} \cup Dashes \cup WS))
HasTrailingText(line) ==
  ReMatch(Cat(<<HEADING_WORD, HEADING_SEPARATORS, Plus(Dot)>>), line)
TrailingText(line) ==
  StrStrip(Group1At(Cat(<<HEADING_WORD, HEADING_SEPARATORS>>), Plus(Dot), line, 0))

\* C5: when the detected abstract heading line carries inline trailing text
\* after a separator, the first line of the abstract zone is that text,
\* trimmed, and the lines up to the computed abstract end follow it.
C5_InlineTextFirst ==
  (Partitioned /\ abstract_idx # None /\ HasTrailingText(stripped[abstract_idx + 1])) =>
    /\ Len(sec.abstract) > 0
    /\ sec.abstract[1] = TrailingText(stripped[abstract_idx + 1])
    /\ Tail(sec.abstract) = Slice(stripped, abstract_idx + 1, sec.bounds.abstract[2])

\* C6: pre_intro is exactly the lines before the earlier of the abstract and
\* introduction boundaries that are present; with neither it is exactly the
\* first 50 lines, or all lines of a shorter document.
C6_PreIntro ==
  Partitioned =>
    sec.pre_intro =
      IF abstract_idx # None /\ intro_idx # None
      THEN SubSeq(stripped, 1, IF abstract_idx < intro_idx THEN abstract_idx ELSE intro_idx)
      ELSE IF abstract_idx # None THEN SubSeq(stripped, 1, abstract_idx)
      ELSE IF intro_idx # None THEN SubSeq(stripped, 1, intro_idx)
      ELSE IF Len(stripped) < 50 THEN stripped
      ELSE SubSeq(stripped, 1, 50)

\* no boundary in a document of more than 50 lines: pre_intro is cut at 50
C6_Witness ==
  /\ Partitioned
  /\ abstract_idx = None
  /\ intro_idx = None
  /\ Len(stripped) > 50
  /\ Len(sec.pre_intro) = 50

\* the lines of the metadata block
BlockLines == Splitlines(meta_block)

StartsWith(line, prefix) ==
  Len(line) >= Len(prefix) /\ SubSeq(line, 1, Len(prefix)) = prefix

\* a DOI-shaped string occurs in the text
HasDoi(text) == SearchStart(doi_pattern, text) # None

\* the block holds "Detected DOI: <doi>" and "Detected DOI URL:
\* https://doi.org/<doi>" with one DOI-shaped <doi>
DoiReported ==
  LET L == BlockLines
  IN \E i, j \in DOMAIN L :
       /\ StartsWith(L[i], S_DOI)
       /\ StartsWith(L[j], S_DOI_URL)
       /\ SubSeq(L[i], Len(S_DOI) + 1, Len(L[i]))
            = SubSeq(L[j], Len(S_DOI_URL) + 1, Len(L[j]))
       /\ ReMatch(Cat(<<doi_pattern, Eol>>), SubSeq(L[i], Len(S_DOI) + 1, Len(L[i])))

\* C7: a DOI-shaped string that occurs in the document only after a detected
\* References heading is never reported: the block has no "Detected DOI" line.
C7_NoDoiFromReferences ==
  ( /\ Described
    /\ end_idx # None
    /\ StrLower(stripped[end_idx + 1]) = <<"r","e","f","e","r","e","n","c","e","s">>
    /\ \A k \in 1..(end_idx + 1) : ~HasDoi(stripped[k])
    /\ \E k \in (end_idx + 2)..Len(stripped) : HasDoi(stripped[k])
    /\ \A k \in DOMAIN doc.links : ~HasDoi(doc.links[k]) )
  => LET L == BlockLines IN \A k \in DOMAIN L : ~StartsWith(L[k], S_DOI)

SafeZoneTexts ==
  {sec.pre_intro[k] : k \in DOMAIN sec.pre_intro}
  \cup (IF Len(doc.pages) > 0
        THEN {doc.pages[1][k] : k \in DOMAIN doc.pages[1]}
               \cup (IF doc.links_raise THEN {}
                     ELSE {doc.links[k] : k \in DOMAIN doc.links})
        ELSE {})

MarkerIn(text) ==
  \E k \in DOMAIN license_markers : Contains(StrLower(text), license_markers[k])

OpenAccessLine == BlockLines[Len(BlockLines)]

\* C9: a license marker anywhere in the document text gives "Detected Open
\* Access: Yes"; "No" is reported only when no marker occurs anywhere and the
\* outlet was not detected as arXiv.
C9_OpenAccessWholeDocument ==
  Described =>
    LET L == BlockLines
        marked == MarkerIn(full_text)
    IN /\ marked => L[Len(L)] = S_OPEN_ACCESS \o S_YES
       /\ L[Len(L)] = S_OPEN_ACCESS \o S_NO =>
            /\ ~marked
            /\ \A k \in DOMAIN L : ~StartsWith(L[k], S_OUTLET_ARXIV)

\* the only marker is in the end matter, outside pre_intro, and the answer
\* is Yes
C9_Witness ==
  /\ Described
  /\ end_idx # None
  /\ \A k \in 1..(end_idx + 1) : ~MarkerIn(stripped[k])
  /\ \E k \in (end_idx + 2)..Len(stripped) : MarkerIn(stripped[k])
  /\ \A k \in DOMAIN sec.pre_intro : ~MarkerIn(sec.pre_intro[k])
  /\ \A k \in DOMAIN BlockLines : ~StartsWith(BlockLines[k], S_OUTLET)
  /\ OpenAccessLine = S_OPEN_ACCESS \o S_YES

\* the signals of the conditional fields
YearSignal ==
  \/ SearchStart(YEAR_PATTERN, doc.metadata.creationDate) # None
  \/ SearchStart(YEAR_PATTERN, doc.metadata.modDate) # None
OutletSignal ==
  \E k \in DOMAIN sec.pre_intro :
    SearchStart(Cat(<<OUTLET_PREFIX, OUTLET_GROUP>>), sec.pre_intro[k]) # None
ArxivSignal ==
  SearchStart(Cat(<<ARXIV_PREFIX, ARXIV_GROUP>>), id_text(doc, sec.pre_intro)) # None

\* C10: the block ends with a line break; it has exactly one "Detected Open
\* Access: Yes|No" line, its last, and exactly one arXiv line ("Detected arXiv
\* ID: ..." or "No arXiv ID detected."); every other field line is there only
\* when its signal was found.
C10_BlockShape ==
  Described =>
    LET L == BlockLines
        arxiv == ArxivSignal
        doi == \E t \in SafeZoneTexts : HasDoi(t)
    IN /\ Len(meta_block) > 0
       /\ meta_block[Len(meta_block)] = NL
       /\ {k \in DOMAIN L : StartsWith(L[k], S_OPEN_ACCESS)} = {Len(L)}
       /\ L[Len(L)] \in {S_OPEN_ACCESS \o S_YES, S_OPEN_ACCESS \o S_NO}
       /\ Cardinality({k \in DOMAIN L :
                         StartsWith(L[k], S_ARXIV_ID) \/ L[k] = S_NO_ARXIV}) = 1
       /\ \A k \in DOMAIN L :
            \/ StartsWith(L[k], S_OPEN_ACCESS)
            \/ L[k] = S_NO_ARXIV /\ ~arxiv
            \/ StartsWith(L[k], S_ARXIV_ID) /\ arxiv
            \/ StartsWith(L[k], S_ARXIV_URL) /\ arxiv
            \/ StartsWith(L[k], S_YEAR) /\ YearSignal
            \/ StartsWith(L[k], S_OUTLET) /\ OutletSignal
            \/ StartsWith(L[k], S_DOI) /\ doi
            \/ StartsWith(L[k], S_DOI_URL) /\ doi

\* a block with every field: year, outlet, DOI, arXiv identifier, open access
C10_Witness ==
  /\ Described
  /\ Len(BlockLines) = 7
  /\ StartsWith(BlockLines[1], S_YEAR)
  /\ StartsWith(BlockLines[2], S_OUTLET)
  /\ StartsWith(BlockLines[5], S_ARXIV_ID)

\* a string: a finite sequence of characters
IsStr(s) == DOMAIN s = 1..Len(s)

\* C11: the mapping returned has exactly the keys sections and full_text;
\* sections has exactly the keys pre_intro, abstract, main_body and
\* end_matter, each a string, and sections.pre_intro is never empty.
C11_CompleteSectionMap ==
  Returned =>
    /\ DOMAIN result = {"sections", "full_text"}
    /\ DOMAIN result.sections = {"pre_intro", "abstract", "main_body", "end_matter"}
    /\ \A z \in DOMAIN result.sections : IsStr(result.sections[z])
    /\ IsStr(result.full_text)
    /\ Len(result.sections.pre_intro) > 0

\* a document that starts with its abstract heading: no line stands in
\* front of it, and pre_intro is still not empty
C11_Witness ==
  /\ Returned
  /\ abstract_idx = 0
  /\ Len(sec.pre_intro) = 0
  /\ Len(result.sections.pre_intro) > 0
  /\ Len(result.sections.abstract) > 0

InTry == {"opened", "lines", "located", "partitioned", "described", "returning", "raising"}

\* C13: an invocation that acquired the handle closes it exactly once before
\* it returns or raises, whichever step failed; a failure reaches the caller
\* after the handle is closed.
C13_ClosedExactlyOnce ==
  /\ closes <= 1
  /\ pc \in InTry => handle = "open" /\ closes = 0
  /\ (pc \in {"done", "raised"} /\ handle # "none") => handle = "closed" /\ closes = 1
  /\ pc = "done" => failure = "none"
  /\ pc = "raised" => failure # "none"
  /\ pc = "raising" => failure # "none"

\* metadata extraction raised in the second invocation: the handle is closed
\* and the failure is the caller's
C13_Witness ==
  /\ pc = "raised"
  /\ calls = 2
  /\ failure = "extract_metadata"
  /\ handle = "closed"
  /\ closes = 1

\* download_pdf has returned or raised
Downloaded == dl.at \in {"returned", "raised"}

\* the sleep times after the first n failed attempts
Backoffs(n) == [k \in 1..n |-> dl.backoff_factor * (2 ^ (k - 1))]

\* C14: download_pdf makes at most `retries` requests; it returns the
\* document of the first request that succeeds and makes no request after it;
\* it sleeps backoff_factor * 2^k after the k-th failed attempt only when
\* another attempt follows; when every attempt failed with a transport error
\* it raises a RuntimeError that wraps the last of them; and it never returns
\* without a document.
C14_BoundedRetry ==
  /\ dl.gets <= dl.retries
  /\ Downloaded =>
       /\ dl.outcome = "document" => dl.gets = Len(dl.errs) + 1
       /\ dl.outcome = "document" => dl.sleeps = Backoffs(Len(dl.errs))
       /\ dl.outcome = "RuntimeError" =>
            /\ dl.gets = dl.retries
            /\ Len(dl.errs) = dl.retries
            /\ dl.cause = dl.errs[Len(dl.errs)]
            /\ dl.sleeps = Backoffs(dl.retries - 1)
       /\ (dl.at = "raised" /\ dl.outcome # "other") => dl.outcome = "RuntimeError"
       /\ (Len(dl.errs) > 0 /\ Len(dl.errs) = dl.retries) =>
            dl.at = "raised" /\ dl.outcome = "RuntimeError"
       /\ dl.at = "returned" => dl.outcome = "document"

\* the mapping is built from a document without text
EmptyReturned == pc = "returning" /\ Len(full_text) = 0

\* the arXiv-absence line followed by the open-access line with value No
BARE_BLOCK == S_NO_ARXIV \o <<NL>> \o S_OPEN_ACCESS \o S_NO \o <<NL>>

\* C15 (as stated): an empty document (no pages or no text) gives empty
\* abstract, main_body and end_matter, and a metadata block that is exactly the
\* arXiv-absence line followed by the open-access line with value No.
C15_Original_EmptyDocument ==
  EmptyReturned =>
    /\ result.sections.abstract = <<>>
    /\ result.sections.main_body = <<>>
    /\ result.sections.end_matter = <<>>
    /\ meta_block = BARE_BLOCK

\* C15 (amended): the same, for an empty document whose properties carry no
\* year and whose first-page links carry no DOI and no arXiv identifier.
C15_EmptyDocument ==
  (EmptyReturned /\ ~YearSignal /\ ~ArxivSignal /\ ~(\E t \in SafeZoneTexts : HasDoi(t))) =>
    /\ result.sections.abstract = <<>>
    /\ result.sections.main_body = <<>>
    /\ result.sections.end_matter = <<>>
    /\ meta_block = BARE_BLOCK
    /\ result.sections.pre_intro = StrStrip(BARE_BLOCK)

\* a document without pages has gone through every step
C15_Witness ==
  /\ EmptyReturned
  /\ Len(doc.pages) = 0
  /\ meta_block = BARE_BLOCK

\* the text is not blank: a character of it is no whitespace
NonBlank(text) == \E k \in DOMAIN text : text[k] \notin WS

\* sections[scope] is there and not blank
ScopeUsable(scope) ==
  /\ fp.sections.given
  /\ scope \in DOMAIN fp.sections.dict
  /\ NonBlank(fp.sections.dict[scope])

\* C16: the text sent for a batch is sections[scope] when that entry exists
\* and is not blank, and full_text in every other case: scope missing from
\* sections, entry empty or whitespace only, or no sections given.
C16_ScopedTextOrFullText ==
  \A k \in DOMAIN fp.sent :
    LET scope == _default_context_scope(fp.sent[k][1])
    IN fp.sent[k][2] = IF ScopeUsable(scope) THEN fp.sections.dict[scope]
                       ELSE fp.full_text

\* one batch was sent its section, the next one full_text because its section
\* is blank
C16_Witness ==
  /\ fp.at = "returned"
  /\ Len(fp.sent) = 2
  /\ ScopeUsable(_default_context_scope(fp.sent[1][1]))
  /\ fp.sent[1][2] = fp.sections.dict[_default_context_scope(fp.sent[1][1])]
  /\ fp.sent[1][2] # fp.full_text
  /\ _default_context_scope(fp.sent[2][1]) \in DOMAIN fp.sections.dict
  /\ fp.sent[2][2] = fp.full_text

\* the fields asked for in some batch
AskedFields ==
  UNION { {batch_fields(fp.fields, fp.batches[k])[j].name :
             j \in DOMAIN batch_fields(fp.fields, fp.batches[k])} :
          k \in DOMAIN fp.batches }

\* C17: with auto_fields mapping a field name to a section path, the results
\* hold that field with the text of the named section, together with every
\* field the model extracted; the warnings are empty when every response held
\* every field asked for.
C17_AutoFieldsInResults ==
  fp.at = "returned" =>
    /\ \A a \in DOMAIN fp.config.auto_fields :
         (fp.sections.given /\ "abstract" \in DOMAIN fp.sections.dict) =>
           /\ a \in DOMAIN fp.results
           /\ fp.results[a] = fp.sections.dict["abstract"]
    /\ fp.complete =>
         /\ \A n \in AskedFields : n \in DOMAIN fp.results /\ fp.results[n] = LLM_RESULT
         /\ fp.warnings = EmptyDict

\* worker w has fetched a record whose status is not 'Processing'
Entered(w) == wk[w].current_status \notin {"unbound", "Processing"}

\* worker w has returned or has ended with an exception
Finished(w) == wk[w].at \in {"ended", "crashed"}

\* C18: for a record whose status is not 'Processing' the worker writes
\* 'Processing' with no error before process_record_by_id starts, and then
\* exactly one final status: 'Failed' with the exception's message when
\* process_record_by_id raised, 'Complete' otherwise, and never 'Complete'
\* after a failure.
C18_ProcessingThenOneFinalStatus ==
  \A w \in DOMAIN wk :
    Entered(w) =>
      /\ wk[w].started =>
           /\ Len(wk[w].writes) >= 1
           /\ wk[w].writes[1][1] = "Processing"
           /\ wk[w].writes[1][2] = NoValue
      /\ Finished(w) =>
           /\ Len(wk[w].writes) = 2
           /\ wk[w].writes[1][1] = "Processing"
           /\ wk[w].writes[2][1] = IF wk[w].raised THEN "Failed" ELSE "Complete"
           /\ wk[w].raised => wk[w].writes[2][2] = wk[w].e

\* the DOI/URL is missing, empty, whitespace only, or N/A in any letter case
ClaimedMissing(doi_url) ==
  \/ ~doi_url.present
  \/ Len(doi_url.text) = 0
  \/ \A k \in DOMAIN doi_url.text : doi_url.text[k] \in WS
  \/ StrUpper(doi_url.text) = S_NA

\* the same, N/A with or without whitespace around it
ClaimedMissingPadded(doi_url) ==
  \/ ClaimedMissing(doi_url)
  \/ \E i, j \in DOMAIN doi_url.text :
       /\ StrUpper(SubSeq(doi_url.text, i, j)) = S_NA
       /\ \A k \in DOMAIN doi_url.text : (k < i \/ k > j) => doi_url.text[k] \in WS

\* C19 (as stated): the final status 'Complete' carries 'DOI/URL not found'
\* exactly when the DOI/URL of the record fetched again is missing, empty,
\* whitespace only or 'N/A' in any letter case, and no message otherwise.
C19_Original_DoiNotFound ==
  \A w \in DOMAIN wk :
    \A k \in DOMAIN wk[w].writes :
      wk[w].writes[k][1] = "Complete" =>
        wk[w].writes[k][2] = IF ClaimedMissing(wk[w].doi_url) THEN DOI_NOT_FOUND
                             ELSE NoValue

\* C19 (amended): the same, with 'N/A' in any letter case and with or without
\* whitespace around it.
C19_DoiNotFound ==
  \A w \in DOMAIN wk :
    \A k \in DOMAIN wk[w].writes :
      wk[w].writes[k][1] = "Complete" =>
        wk[w].writes[k][2] = IF ClaimedMissingPadded(wk[w].doi_url) THEN DOI_NOT_FOUND
                             ELSE NoValue

\* the record fetched again holds 'n/a' and 'Complete' carries the message
C19_Witness ==
  \E w \in DOMAIN wk :
    /\ wk[w].at = "ended"
    /\ wk[w].doi_url = Field(<<"n","/","a">>)
    /\ Len(wk[w].writes) = 2
    /\ wk[w].writes[2][1] = "Complete"
    /\ wk[w].writes[2][2] = DOI_NOT_FOUND

\* C20: every status write sends one update that holds both 'Processing
\* Status' and 'Error'; Error is the message when one is given and None
\* otherwise, so a write without a message clears the error of an earlier run.
C20_StatusAndErrorAlwaysSent ==
  \A w \in DOMAIN wk :
    \A k \in DOMAIN wk[w].writes :
      LET write == wk[w].writes[k]
      IN /\ DOMAIN write[3] = {"Processing Status", "Error"}
         /\ write[3]["Processing Status"] = write[1]
         /\ write[3]["Error"] = IF write[2] \notin {NoValue, ""} THEN write[2] ELSE NoValue
         /\ (k = Len(wk[w].writes) /\ write[2] = NoValue) => store["Error"] = NoValue

\* a record that failed before is processed again: 'Complete' without a
\* message has cleared its Error
C20_Witness ==
  \E w \in DOMAIN wk :
    /\ wk[w].at = "ended"
    /\ wk[w].current_status = "Failed"
    /\ Len(wk[w].writes) = 2
    /\ wk[w].writes[2][1] = "Complete"
    /\ wk[w].writes[2][2] = NoValue
    /\ store["Error"] = NoValue

\* C21: any two returns from _respect_rate_limit are at least
\* _MIN_REQUEST_INTERVAL apart, whatever the threads and their interleaving,
\* and with an interval of 0 no caller sleeps.
C21_ReleasesApart ==
  /\ \A i, j \in DOMAIN rl.released :
       i < j => rl.released[j][2] - rl.released[i][2] >= rl.interval
  /\ rl.interval = 0 => rl.sleeps = <<>>

\* a year as the pattern of the year detection reads it: 19xx or 20xx
IsYear(s) ==
  /\ Len(s) = 4
  /\ <<s[1], s[2]>> \in {<<"2","0">>, <<"1","9">>}
  /\ s[3] \in Digit /\ s[4] \in Digit

\* the positions of a property value at which a year starts
YearsAt(val) == {q \in 1..(Len(val) - 3) : IsYear(SubSeq(val, q, q + 3))}

\* C22: the year comes from creationDate, then modDate: the first of the two
\* that holds a 19xx/20xx year gives the value, a property without a year is
\* passed over, there is at most one year line, and the text of the document
\* never gives the year.
C22_YearFromProperties ==
  Described =>
    LET lines == BlockLines
        years == SelectSeq(lines, LAMBDA l : StartsWith(l, S_YEAR))
        c == doc.metadata.creationDate
        md == doc.metadata.modDate
        from == IF YearsAt(c) # {} THEN c ELSE md
    IN /\ Len(years) <= 1
       /\ (YearsAt(c) = {} /\ YearsAt(md) = {}) => years = <<>>
       /\ YearsAt(from) # {} =>
            years = <<S_YEAR \o SubSeq(from, Min(YearsAt(from)), Min(YearsAt(from)) + 3)>>

\* creationDate is there without a year, modDate holds one, and so does the text
C22_Witness ==
  /\ Described
  /\ doc.metadata.creationDate = M_NoYear
  /\ doc.metadata.modDate = M_Date
  /\ \E k \in DOMAIN stripped : YearsAt(stripped[k]) # {}
  /\ \E k \in DOMAIN BlockLines : BlockLines[k] = S_YEAR \o <<"2","0","2","1">>

\* a line that starts a new section: a numbered heading ("2 Methods"), a
\* roman-numeral heading ("II. Methods") or an all-caps heading ("METHODS")
SectionHeading(line) ==
  \E k \in DOMAIN NUMBERED_PATTERNS : ReMatch(NUMBERED_PATTERNS[k], line)

\* C23: with the abstract heading at a and neither a keywords boundary nor an
\* introduction boundary after a, the abstract ends just before the first
\* later line that is a new-section heading, and runs to the document end
\* only when there is no such line.
C23_EndsAtNextHeading ==
  (pc = "partitioned" /\ abstract_idx # None) =>
    LET a == abstract_idx
        kw == FirstIndex(stripped, LAMBDA ln : LowerOrNormMatch(KEYWORDS_PATTERNS, ln))
        heads == {k \in (a + 1)..(Len(stripped) - 1) : SectionHeading(stripped[k + 1])}
    IN (~(kw > a) /\ ~(intro_idx > a)) =>
         sec.abstract = InlineAbstract(stripped, a)
                          \o Slice(stripped, a + 1,
                                   IF heads = {} THEN Len(stripped) ELSE Min(heads))

\* C24: without an abstract heading, the abstract zone is every line before
\* the introduction heading when that heading is at an index greater than 5,
\* and is empty when the heading is at index 5 or lower or is absent.
C24_AbstractBeforeIntroduction ==
  (pc = "partitioned" /\ abstract_idx = None) =>
    sec.abstract = IF intro_idx # None /\ intro_idx > 5
                   THEN SubSeq(stripped, 1, intro_idx)
                   ELSE <<>>

\* the introduction heading at index 6, six lines before it
C24_Witness ==
  /\ pc = "partitioned"
  /\ abstract_idx = None
  /\ intro_idx = 6
  /\ Len(sec.abstract) = 6
  /\ \A k \in 1..6 : sec.abstract[k] = <<"Y">>

\* the lines main_body and end_matter are cut from, as stated
BodyStartClaimed ==
  IF intro_idx # None THEN intro_idx
  ELSE IF abstract_idx # None THEN abstract_idx + 1 ELSE 0
BodyEndClaimed == IF end_idx # None THEN end_idx ELSE Len(stripped)

\* C25: main_body is exactly the lines from its start (intro_idx, else
\* abstract_idx + 1, else 0) up to but excluding its end (end_idx, else the
\* document length); end_matter is exactly the lines strictly after end_idx,
\* or empty without an end boundary; with an introduction heading found,
\* main_body contains the heading line.
C25_MainBodyAndEndMatter ==
  pc = "partitioned" =>
    /\ sec.main_body = SubSeq(stripped, BodyStartClaimed + 1, BodyEndClaimed)
    /\ sec.end_matter = IF end_idx # None
                        THEN SubSeq(stripped, end_idx + 2, Len(stripped))
                        ELSE <<>>
    /\ intro_idx # None =>
         \E k \in DOMAIN sec.main_body : sec.main_body[k] = stripped[intro_idx + 1]

\* the workers inside process_record_by_id
Processing == {w \in DOMAIN wk : wk[w].at = "process"}

\* C26: whatever the interleaving of the workers given one record, at most
\* one of them runs process_record_by_id at a time, and a worker that read
\* the status "Processing" ends without writing a status.
C26_OneWorkerPerRecord ==
  /\ Cardinality(Processing) <= 1
  /\ \A w \in DOMAIN wk : wk[w].current_status = "Processing" => wk[w].writes = <<>>

\* the worker has written the status given
Wrote(w, statuses) == \E k \in DOMAIN wk[w].writes : wk[w].writes[k][1] \in statuses

\* C27: once the worker has written "Processing" it goes on to write
\* "Complete" or "Failed" before it ends, also when a call of the record
\* store fails: the record does not stay in "Processing".
C27_ProcessingIsLeft ==
  Wrote("w1", {"Processing"}) ~> Wrote("w1", {"Complete", "Failed"})

\* the request carries a record_id; its token is the configured secret
HasRecordId(data) == data.kind = "object" /\ data.record_id \notin {NoValue, ""}
TokenIsSecret(data, secret) ==
  data.kind = "object" /\ data.token # NoValue /\ secret # NoValue /\ data.token = secret

\* C28: a record is submitted to the pool only for a request with a
\* record_id and the token equal to the configured secret; a request
\* without record_id gets 400, a request whose token is missing or wrong
\* gets 403, and nothing is queued for either, whether the secret is set or
\* not.
C28_OnlyAuthorizedQueued ==
  \A k \in DOMAIN ep.responses :
    LET data == ep.responses[k][1]
        code == ep.responses[k][2]
        submitted == ep.responses[k][3]
    IN /\ submitted => (HasRecordId(data) /\ TokenIsSecret(data, ep.API_SECRET))
       /\ ~HasRecordId(data) => (code = 400 /\ ~submitted)
       /\ (HasRecordId(data) /\ ~TokenIsSecret(data, ep.API_SECRET)) =>
            (code = 403 /\ ~submitted)

\* C29: for a record whose DOI/URL is not empty, no update sent by
\* process_single_record holds the key "DOI/URL"; for a record without it,
\* the canonical source URL is written as DOI/URL only when the extracted
\* fields hold no DOI/URL.
C29_UserUrlKept ==
  \A k \in DOMAIN ps.updates :
    LET update == ps.updates[k]
        canonical == canonical_source_url(ps.fields)
    IN /\ FieldTruthy(ps.fields.doi_url) => K_DOI_URL \notin DOMAIN update
       /\ (~FieldTruthy(ps.fields.doi_url) /\ K_DOI_URL \in DOMAIN update) =>
            IF K_DOI_URL \in DOMAIN ps.results
            THEN update[K_DOI_URL] = ps.results[K_DOI_URL]
            ELSE FieldTruthy(canonical) /\ update[K_DOI_URL] = Str(canonical.text)

\* the user gave a DOI/URL, the extraction found another one, and the update
\* sent holds the other fields only
C29_Witness ==
  /\ ps.at = "done"
  /\ ps.fields.doi_url = Field(U_User)
  /\ K_DOI_URL \in DOMAIN ps.results
  /\ Len(ps.updates) >= 1
  /\ DOMAIN ps.updates[1] = {"Title"}

\* the names of the fields asked for in a batch, and the batches that have any
NamesOf(batch) ==
  {batch_fields(fp.fields, batch)[j].name : j \in DOMAIN batch_fields(fp.fields, batch)}
BatchesWithFields == {fp.batches[k] : k \in {j \in DOMAIN fp.batches : NamesOf(fp.batches[j]) # {}}}

\* C30: a batch whose call raised or whose answer was no JSON has a warning
\* under its name and none of its fields in the results; every other batch
\* is still gone through, process_fields returns; a batch has a warning
\* exactly when it failed or its answer lacked a field asked for.
C30_BatchFailureIsolated ==
  /\ fp.at \in {"idle", "loop", "returned"}
  /\ \A k \in DOMAIN fp.log :
       LET batch == fp.log[k][1]
           outcome == fp.log[k][2]
       IN /\ outcome \in {"invalid", "raised"} =>
               /\ batch \in DOMAIN fp.warnings
               /\ NamesOf(batch) \cap DOMAIN fp.results = {}
          /\ batch \in DOMAIN fp.warnings <=> outcome \in {"invalid", "raised", "missing"}
  /\ DOMAIN fp.warnings \subseteq {fp.log[k][1] : k \in DOMAIN fp.log}
  /\ fp.at = "returned" => {fp.log[k][1] : k \in DOMAIN fp.log} = BatchesWithFields

\* the first batch failed, the second was answered in full and its field is
\* in the results
C30_Witness ==
  /\ fp.at = "returned"
  /\ Len(fp.log) = 2
  /\ fp.log[1][2] = "raised"
  /\ fp.log[2][2] = "answered"
  /\ DOMAIN fp.warnings = {fp.log[1][1]}
  /\ DOMAIN fp.results = NamesOf(fp.log[2][1])

=========================================================================
